---- MODULE Spec2Model ----
(***************************************************************************)
(* Polymarket BTC arb scanner: OrderbookWatcher (websocket.ts), ArbDetector *)
(* (arbDetector.ts) and the market refresh of main (index.ts).             *)
(*                                                                         *)
(* Prices are fixed-point numbers in tenths (0.4 is 4), so 1.0 is 10.      *)
(* JavaScript Maps are functions whose DOMAIN is the key set; null is      *)
(* NULL.                                                                   *)
(*                                                                         *)
(* The specifications share the operators of the program:                  *)
(*   Spec         the detector under well-formed frames and market         *)
(*                refreshes, with the feed connection taken to be open;    *)
(*   FeedSpec     the message handler of the feed under every kind of      *)
(*                payload (unknown tokens, unhandled event types,          *)
(*                malformed frames);                                       *)
(*   ConnSpec     the connect loop of the feed (open, close, error,        *)
(*                backoff) around the detector;                            *)
(*   CatalogSpec  main from its start: catalog fetches that succeed or     *)
(*                fail, the selection of the watched markets, the clock;   *)
(*   LogSpec      the Logger's asynchronous appends to the windows file;   *)
(*   WriterSpec   the persistence writer over the windows table;           *)
(*   ClassifySpec the window classifier;                                   *)
(*   TokenSpec    the YES/NO token assignment of fetchMarkets.             *)
(***************************************************************************)
EXTENDS Integers, Sequences, FiniteSets, TLC

VARIABLES
    markets,          \* ArbDetector.markets (key set; Market objects are fixed)
    tokenToMarket,    \* ArbDetector.tokenToMarket
    stats,            \* ArbDetector.stats
    windows,          \* ArbDetector.windows
    books,            \* OrderbookWatcher.books
    bestAsks,         \* OrderbookWatcher.bestAsks
    bestBids,         \* OrderbookWatcher.bestBids
    subscribedTokens, \* OrderbookWatcher.subscribedTokens
    totalUpdates,     \* OrderbookWatcher.totalUpdates
    watchedMarkets,   \* main: watchedMarkets
    watchedIds,       \* main: watchedIds
    pc,               \* OrderbookWatcher.connect: the position of the connect loop
    reconnectDelay,   \* OrderbookWatcher.reconnectDelay (ms)
    shouldRun,        \* OrderbookWatcher.shouldRun
    now,              \* the reading of Date.now()
    out,              \* scanLog / onWindow / onEvent calls made by the last step, in call order
    reported,         \* every ArbWindow passed to onWindow so far
    observed,         \* observer of out, per market: the length of the current run of arb
                      \* events and the combined price of the last event
    payload,          \* the payload of the last 'message' event (FeedSpec)
    nMessages,        \* the number of 'message' events handled (FeedSpec)
    lastWait,         \* the duration of the last sleep of the connect loop (ConnSpec)
    failures,         \* connection failures since the last successful open (ConnSpec)
    interrupted,      \* the markets whose active window has seen the connection fail (ConnSpec)
    failedBefore,     \* the failed attempts that preceded the last 'open' event (ConnSpec)
    sentTokens,       \* the tokens of the subscriptions sent on the current socket (ConnSpec)
    trace,            \* the deletions of the last step, in execution order
    allMarkets,       \* main: allMarkets (CatalogSpec)
    proc,             \* main: "starting", "running" or "exited" (CatalogSpec)
    fetched,          \* the outcome of the fetchMarkets call of the last step (CatalogSpec)
    pinned,           \* per timeframe, the nearest upcoming market known at the last
                      \* refresh and at the last refresh whose fetch succeeded (CatalogSpec)
    fetches,          \* the fetchMarkets calls of the refresh interval that have not
                      \* completed, and the one that completed last (OverlapSpec)
    inflight,         \* the fs.appendFile calls that have not completed (LogSpec)
    file,             \* the rows of the windows file (LogSpec)
    totalWindows,     \* Logger.totalWindows (LogSpec)
    table,            \* the rows of the windows table (WriterSpec)
    queue,            \* the events on their way to the writer, and the windows whose
                      \* Open and Close have been enqueued (WriterSpec)
    call,             \* the arguments of the last call of a pure function
    ret               \* the value it returned

vars == <<markets, tokenToMarket, stats, windows, books, bestAsks, bestBids,
          subscribedTokens, totalUpdates, watchedMarkets, watchedIds,
          pc, reconnectDelay, shouldRun, now,
          out, reported, observed, payload, nMessages, lastWait, failures,
          interrupted, failedBefore, sentTokens, trace, allMarkets, proc, fetched,
          pinned, fetches, inflight, file, totalWindows, table, queue, call, ret>>

(***************************************************************************)
(* Bounds and program constants                                            *)
(***************************************************************************)
MaxUpdates == 4
MaxTime == 1

MIN_COMBINED_THRESHOLD == 10
ONE == 10
MIN_ARB_TICKS == 2
INITIAL_DELAY == 1000
MAX_DELAY == 30000

NULL == -1

Markets == {"m1", "m2"}
yesTokenId(m) == IF m = "m1" THEN "y1" ELSE "y2"
noTokenId(m) == IF m = "m1" THEN "n1" ELSE "n2"
TokenIds == {yesTokenId(m) : m \in Markets} \cup {noTokenId(m) : m \in Markets}

(* The catalog, times in units of one market duration: m1 and m2 are two   *)
(* consecutive markets of one timeframe; m3, m4 and m5 are markets of a    *)
(* second timeframe that only selectWatchedMarkets is applied to: m3 has   *)
(* no startAt, m4 has no expiresAt, m4 and m5 start together.              *)
CatalogIds == Markets \cup {"m3", "m4", "m5"}
Timeframes == {"5-min", "15-min"}
timeframe(m) == IF m \in {"m1", "m2"} THEN "5-min" ELSE "15-min"
startAt(m) ==
    CASE m = "m1" -> 1 [] m = "m2" -> 2 [] m = "m3" -> NULL [] m = "m4" -> 3 [] m = "m5" -> 3
expiresAt(m) ==
    CASE m = "m1" -> 2 [] m = "m2" -> 3 [] m = "m3" -> 3 [] m = "m4" -> NULL [] m = "m5" -> 4
Infinity == 1000000

(***************************************************************************)
(* JavaScript Map                                                          *)
(***************************************************************************)
EmptyMap == <<>>
MapHas(map, k) == k \in DOMAIN map
MapSet(map, k, v) == [x \in DOMAIN map \cup {k} |-> IF x = k THEN v ELSE map[x]]
MapDelete(map, k) == [x \in DOMAIN map \ {k} |-> map[x]]
MapGetOrNull(map, k) == IF k \in DOMAIN map THEN map[k] ELSE NULL

SetMin(S) == CHOOSE x \in S : \A y \in S : x <= y
SetMax(S) == CHOOSE x \in S : \A y \in S : x >= y

RECURSIVE SeqSum(_)
SeqSum(s) == IF s = <<>> THEN 0 ELSE Head(s) + SeqSum(Tail(s))
SeqMax(s) == SetMax({s[i] : i \in DOMAIN s})
SeqRange(s) == {s[i] : i \in DOMAIN s}

(***************************************************************************)
(* OrderBook (websocket.ts)                                                *)
(***************************************************************************)
(* A JSON null where an object is expected: reading a property of it       *)
(* throws a TypeError.  An operation that can throw returns its result     *)
(* with the flag threw; what it had assigned before throwing stays.        *)
NullEntry == [null |-> TRUE]
IsNull(e) == "null" \in DOMAIN e

NewOrderBook == [asks |-> EmptyMap, bids |-> EmptyMap]

Map_clear_keep(map) == map

Map_clear(map) == EmptyMap

RECURSIVE SetLevels(_, _)
SetLevels(map, entries) ==
    IF entries = <<>> THEN [map |-> map, threw |-> FALSE]
    ELSE LET e == Head(entries)
         IN IF IsNull(e) THEN [map |-> map, threw |-> TRUE]
            ELSE SetLevels(IF e.size > 0 THEN MapSet(map, e.price, e.size) ELSE map,
                           Tail(entries))

applySnapshot(book, asks, bids) ==
    LET a == SetLevels(Map_clear(book.asks), asks)
    IN IF a.threw THEN [book |-> [book EXCEPT !.asks = a.map], threw |-> TRUE]
       ELSE LET b == SetLevels(Map_clear(book.bids), bids)
            IN [book |-> [asks |-> a.map, bids |-> b.map], threw |-> b.threw]

applyChange(book, price, side, size) ==
    IF side = "SELL"
    THEN [book EXCEPT !.asks = IF size = 0 THEN MapDelete(@, price)
                                ELSE MapSet(@, price, size)]
    ELSE IF side = "BUY"
    THEN [book EXCEPT !.bids = IF size = 0 THEN MapDelete(@, price)
                                ELSE MapSet(@, price, size)]
    ELSE book

RECURSIVE applyChanges(_, _)
applyChanges(book, changes) ==
    IF changes = <<>> THEN [book |-> book, threw |-> FALSE]
    ELSE LET c == Head(changes)
         IN IF IsNull(c) THEN [book |-> book, threw |-> TRUE]
            ELSE applyChanges(applyChange(book, c.price, c.side, c.size), Tail(changes))

OrderBook_getBestAsk(book) ==
    IF DOMAIN book.asks = {} THEN NULL ELSE SetMin(DOMAIN book.asks)

OrderBook_getBestBid(book) ==
    IF DOMAIN book.bids = {} THEN NULL ELSE SetMax(DOMAIN book.bids)

(***************************************************************************)
(* OrderbookWatcher getters                                                *)
(***************************************************************************)
getBestAsk(asks, tokenId) == MapGetOrNull(asks, tokenId)
getBestBid(bids, tokenId) == MapGetOrNull(bids, tokenId)

(***************************************************************************)
(* ArbDetector (arbDetector.ts).  The operators below take the program     *)
(* state D as one record (the detector's and the watcher's fields) whose   *)
(* field out lists the calls made so far by the running handler.           *)
(***************************************************************************)
toISOString(ts) == <<"iso", ts>>
getTime(iso) == iso[2]

NewStats(m) ==
    [marketId |-> m, tickCount |-> 0, windowCount |-> 0, bestSpread |-> 0,
     sumArbSpread |-> 0, arbTickCount |-> 0,
     avgWindowDurationMs |-> [num |-> 0, den |-> 1],
     longestWindowMs |-> 0, sumWindowDurationMs |-> 0,
     lastArbAt |-> NULL, currentCombined |-> NULL]

Detector_addMarket(D, m) ==
    IF m \in D.markets THEN D
    ELSE [D EXCEPT
            !.out = Append(@, [kind |-> "scanLog", tag |-> "Market Watching", marketId |-> m]),
            !.markets = @ \cup {m},
            !.tokenToMarket = MapSet(MapSet(@, yesTokenId(m), m), noTokenId(m), m),
            !.stats = MapSet(@, m, NewStats(m))]

RECURSIVE Detector_addMarkets(_, _)
Detector_addMarkets(D, ms) ==
    IF ms = <<>> THEN D
    ELSE Detector_addMarkets(Detector_addMarket(D, Head(ms)), Tail(ms))

isDiscarded_never(w) == FALSE

isDiscarded(w) == Len(w.spreads) < MIN_ARB_TICKS

Windows_delete_keep(D, marketId) == D

Windows_delete_unlessShort(D, marketId) ==
    IF Len(D.windows[marketId].spreads) < MIN_ARB_TICKS THEN D
    ELSE [D EXCEPT !.windows = MapDelete(@, marketId)]

Windows_delete(D, marketId) == [D EXCEPT !.windows = MapDelete(@, marketId)]

durationMs_untilLastTick(w) == Len(w.spreads) - 1

durationMs(w) == w.lastArbTickTs - w.startTs

windowStats_noSum(s, w) ==
    [s EXCEPT !.windowCount = @ + 1,
              !.avgWindowDurationMs = [num |-> s.sumWindowDurationMs, den |-> s.windowCount + 1],
              !.longestWindowMs = IF durationMs(w) > @ THEN durationMs(w) ELSE @,
              !.bestSpread = IF SeqMax(w.spreads) > @ THEN SeqMax(w.spreads) ELSE @]

windowStats(s, w) ==
    LET s1 == [s EXCEPT !.windowCount = @ + 1,
                        !.sumWindowDurationMs = @ + durationMs(w)]
    IN [s1 EXCEPT
          !.avgWindowDurationMs =
              [num |-> s1.sumWindowDurationMs, den |-> s1.windowCount],
          !.longestWindowMs = IF durationMs(w) > @ THEN durationMs(w) ELSE @,
          !.bestSpread = IF SeqMax(w.spreads) > @ THEN SeqMax(w.spreads) ELSE @]

closeWindow(D, marketId, closeCombined) ==
    IF ~MapHas(D.windows, marketId) THEN D
    ELSE
      LET w == D.windows[marketId]
          D1 == Windows_delete(D, marketId)
      IN IF isDiscarded(w) THEN D1
         ELSE
           LET peakSpread == SeqMax(w.spreads)
               avgSpread == [num |-> SeqSum(w.spreads), den |-> Len(w.spreads)]
               s == windowStats(D1.stats[marketId], w)
               arbWindow ==
                   [windowStart |-> toISOString(w.startTs),
                    windowEnd |-> toISOString(w.lastArbTickTs),
                    durationMs |-> durationMs(w),
                    marketId |-> marketId,
                    tickCount |-> Len(w.spreads),
                    peakSpread |-> peakSpread,
                    avgSpread |-> avgSpread,
                    openCombined |-> w.openCombined,
                    closeCombined |-> closeCombined]
           IN [D1 EXCEPT
                 !.stats = MapSet(@, marketId, s),
                 !.out = @ \o <<[kind |-> "scanLog", tag |-> "ARB CLOSE", marketId |-> marketId],
                                [kind |-> "onWindow", window |-> arbWindow]>>]

Spread_negated(combined) == combined - ONE

Spread(combined) == ONE - combined

IsArb_orEqual(combined) == combined <= MIN_COMBINED_THRESHOLD

IsArb_always(combined) == TRUE

IsArb(combined) == combined < MIN_COMBINED_THRESHOLD

openWindow_epoch(combined, spread, t) ==
    [startTs |-> 0, lastArbTickTs |-> t, openCombined |-> combined, spreads |-> <<spread>>]

openWindow(combined, spread, t) ==
    [startTs |-> t, lastArbTickTs |-> t, openCombined |-> combined, spreads |-> <<spread>>]

extendWindow_reopen(w, spread, t) ==
    [startTs |-> t, lastArbTickTs |-> t, openCombined |-> ONE - spread,
     spreads |-> <<spread>>]

extendWindow_noPush(w, spread, t) == [w EXCEPT !.lastArbTickTs = t]

extendWindow_staleEnd(w, spread, t) == [w EXCEPT !.spreads = Append(@, spread)]

extendWindow_movesStart(w, spread, t) ==
    [w EXCEPT !.spreads = Append(@, spread), !.startTs = t]

extendWindow(w, spread, t) ==
    [w EXCEPT !.spreads = Append(@, spread), !.lastArbTickTs = t]

arbStats(s, spread, t) ==
    [s EXCEPT !.lastArbAt = t,
              !.sumArbSpread = @ + spread,
              !.arbTickCount = @ + 1,
              !.bestSpread = IF spread > @ THEN spread ELSE @]

isHalfHydrated_yesOnly(yesAsk, noAsk) == yesAsk = NULL

isHalfHydrated(yesAsk, noAsk) == yesAsk = NULL \/ noAsk = NULL

check(D, asks, tokenId, t) ==
    IF ~MapHas(D.tokenToMarket, tokenId) THEN D
    ELSE
      LET marketId == D.tokenToMarket[tokenId]
      IN IF marketId \notin D.markets THEN D
         ELSE
           LET yesAsk == getBestAsk(asks, yesTokenId(marketId))
               noAsk == getBestAsk(asks, noTokenId(marketId))
           IN IF isHalfHydrated(yesAsk, noAsk) THEN D
              ELSE
                LET combined == yesAsk + noAsk
                    spread == Spread(combined)
                    isArb == IsArb(combined)
                    inWindow == MapHas(D.windows, marketId)
                    s == [D.stats[marketId] EXCEPT !.tickCount = @ + 1,
                                                   !.currentCombined = combined]
                    D0 == [D EXCEPT !.stats = MapSet(@, marketId, s)]
                    D1 == IF isArb /\ ~inWindow
                          THEN [D0 EXCEPT
                                  !.windows = MapSet(@, marketId,
                                                     openWindow(combined, spread, t)),
                                  !.stats = MapSet(@, marketId, arbStats(s, spread, t)),
                                  !.out = Append(@, [kind |-> "scanLog", tag |-> "ARB OPEN",
                                                     marketId |-> marketId])]
                          ELSE IF isArb /\ inWindow
                          THEN [D0 EXCEPT
                                  !.windows = MapSet(@, marketId,
                                                     extendWindow(@[marketId], spread, t)),
                                  !.stats = MapSet(@, marketId, arbStats(s, spread, t))]
                          ELSE IF ~isArb /\ inWindow
                          THEN closeWindow(D0, marketId, combined)
                          ELSE D0
                IN [D1 EXCEPT !.out = Append(@,
                        [kind |-> "onEvent", timestamp |-> toISOString(t),
                         marketId |-> marketId, yesAsk |-> yesAsk,
                         noAsk |-> noAsk, combined |-> combined, spread |-> spread,
                         isArb |-> isArb])]

removalCombined_default(D, m) == ONE

removalCombined(D, m) ==
    IF MapHas(D.stats, m) /\ D.stats[m].currentCombined # NULL
    THEN D.stats[m].currentCombined
    ELSE ONE

Detector_removeMarket(D, m) ==
    LET D1 == IF MapHas(D.windows, m) THEN closeWindow(D, m, removalCombined(D, m)) ELSE D
    IN [D1 EXCEPT !.markets = @ \ {m},
                  !.stats = MapDelete(@, m),
                  !.tokenToMarket = MapDelete(MapDelete(@, yesTokenId(m)), noTokenId(m)),
                  !.trace = @ \o <<[op |-> "tokenToMarket.delete", tokenId |-> yesTokenId(m)],
                                   [op |-> "tokenToMarket.delete", tokenId |-> noTokenId(m)]>>]

RECURSIVE Detector_removeMarkets(_, _)
Detector_removeMarkets(D, ms) ==
    IF ms = <<>> THEN D
    ELSE Detector_removeMarkets(Detector_removeMarket(D, Head(ms)), Tail(ms))

(***************************************************************************)
(* OrderbookWatcher (websocket.ts)                                         *)
(***************************************************************************)
RECURSIVE Watcher_addTokens(_, _)
Watcher_addTokens(D, tokenIds) ==
    IF tokenIds = <<>> THEN D
    ELSE LET tokenId == Head(tokenIds)
             D1 == IF tokenId \notin D.subscribedTokens
                   THEN [D EXCEPT !.subscribedTokens = @ \cup {tokenId},
                                  !.books = MapSet(@, tokenId, NewOrderBook)]
                   ELSE D
         IN Watcher_addTokens(D1, Tail(tokenIds))

RECURSIVE Watcher_addAll(_, _)
Watcher_addAll(D, ms) ==
    IF ms = <<>> THEN D
    ELSE Watcher_addAll(
             Watcher_addTokens(D, <<yesTokenId(Head(ms)), noTokenId(Head(ms))>>),
             Tail(ms))

(* ws.send of a subscription; tokenIds is the set of the array's elements. *)
sendSubscription(D, tokenIds) ==
    IF ~D.open THEN D
    ELSE [D EXCEPT !.out = Append(@, [kind |-> "send", assets_ids |-> tokenIds,
                                      type |-> "Book"])]

Watcher_addMarkets_noSend(D, ms) == Watcher_addAll(D, ms)

Watcher_addMarkets(D, ms) ==
    LET D1 == Watcher_addAll(D, ms)
        newTokens == D1.subscribedTokens \ D.subscribedTokens
    IN IF newTokens # {} /\ D1.open THEN sendSubscription(D1, newTokens) ELSE D1

RECURSIVE Watcher_removeTokens_keepBooks(_, _)
Watcher_removeTokens_keepBooks(D, tokenIds) ==
    IF tokenIds = <<>> THEN D
    ELSE LET tokenId == Head(tokenIds)
         IN Watcher_removeTokens_keepBooks(
                [D EXCEPT !.subscribedTokens = @ \ {tokenId},
                          !.bestAsks = MapDelete(@, tokenId),
                          !.bestBids = MapDelete(@, tokenId),
                          !.trace = Append(@, [op |-> "subscribedTokens.delete",
                                               tokenId |-> tokenId])],
                Tail(tokenIds))

RECURSIVE Watcher_removeTokens_keepBest(_, _)
Watcher_removeTokens_keepBest(D, tokenIds) ==
    IF tokenIds = <<>> THEN D
    ELSE LET tokenId == Head(tokenIds)
         IN Watcher_removeTokens_keepBest(
                [D EXCEPT !.subscribedTokens = @ \ {tokenId},
                          !.books = MapDelete(@, tokenId),
                          !.trace = Append(@, [op |-> "subscribedTokens.delete",
                                               tokenId |-> tokenId])],
                Tail(tokenIds))

RECURSIVE Watcher_removeTokens(_, _)
Watcher_removeTokens(D, tokenIds) ==
    IF tokenIds = <<>> THEN D
    ELSE LET tokenId == Head(tokenIds)
         IN Watcher_removeTokens(
                [D EXCEPT !.subscribedTokens = @ \ {tokenId},
                          !.books = MapDelete(@, tokenId),
                          !.bestAsks = MapDelete(@, tokenId),
                          !.bestBids = MapDelete(@, tokenId),
                          !.trace = Append(@, [op |-> "subscribedTokens.delete",
                                               tokenId |-> tokenId])],
                Tail(tokenIds))

RECURSIVE Watcher_removeMarkets(_, _)
Watcher_removeMarkets(D, ms) ==
    IF ms = <<>> THEN D
    ELSE Watcher_removeMarkets(
             Watcher_removeTokens(D, <<yesTokenId(Head(ms)), noTokenId(Head(ms))>>),
             Tail(ms))

updateBestPrices_checkFirst(D, tokenId, book, t) ==
    LET bestAsk == OrderBook_getBestAsk(book)
        bestBid == OrderBook_getBestBid(book)
        D1 == IF bestAsk # NULL \/ bestBid # NULL
              THEN check([D EXCEPT !.totalUpdates = @ + 1], D.bestAsks, tokenId, t)
              ELSE D
    IN [D1 EXCEPT
          !.bestAsks = IF bestAsk # NULL THEN MapSet(@, tokenId, bestAsk) ELSE @,
          !.bestBids = IF bestBid # NULL THEN MapSet(@, tokenId, bestBid) ELSE @]

updateBestPrices(D, tokenId, book, t) ==
    LET bestAsk == OrderBook_getBestAsk(book)
        bestBid == OrderBook_getBestBid(book)
        D1 == [D EXCEPT
                 !.bestAsks = IF bestAsk # NULL THEN MapSet(@, tokenId, bestAsk) ELSE @,
                 !.bestBids = IF bestBid # NULL THEN MapSet(@, tokenId, bestBid) ELSE @]
    IN IF bestAsk # NULL \/ bestBid # NULL
       THEN check([D1 EXCEPT !.totalUpdates = @ + 1], D1.bestAsks, tokenId, t)
       ELSE D1

handleMessage(D, msg, t) ==
    IF IsNull(msg) THEN [D EXCEPT !.threw = TRUE]
    ELSE
      LET tokenId == msg.asset_id
      IN IF tokenId = "" THEN D
         ELSE IF ~MapHas(D.books, tokenId) THEN D
         ELSE IF msg.event_type \in {"book", "price_change"}
         THEN LET r == IF msg.event_type = "book"
                       THEN applySnapshot(D.books[tokenId], msg.asks, msg.bids)
                       ELSE applyChanges(D.books[tokenId], msg.changes)
                  D1 == [D EXCEPT !.books = MapSet(@, tokenId, r.book)]
              IN IF r.threw THEN [D1 EXCEPT !.threw = TRUE]
                 ELSE updateBestPrices(D1, tokenId, r.book, t)
         ELSE D

(* The 'open' handler of connectOnce on the state whose socket is open;    *)
(* the reset of reconnectDelay is in the action Open.                      *)
Socket_onOpen_resetMarkets(D) ==
    Watcher_addMarkets(
        Detector_addMarkets(
            Watcher_removeMarkets(Detector_removeMarkets(D, D.watchedMarkets),
                                  D.watchedMarkets),
            D.watchedMarkets),
        D.watchedMarkets)

Socket_onOpen(D) ==
    IF D.subscribedTokens # {} THEN sendSubscription(D, D.subscribedTokens) ELSE D

(* The 'message' handler of connectOnce.  A payload is the text of one     *)
(* frame: json says whether JSON.parse accepts it, msgs lists the messages *)
(* it holds (one for an object, several for an array).  The catch clause   *)
(* ends the loop at the first message that throws.                         *)
RECURSIVE handleMessages(_, _, _)
handleMessages(D, msgs, t) ==
    IF msgs = <<>> \/ D.threw THEN D
    ELSE handleMessages(handleMessage(D, Head(msgs), t), Tail(msgs), t)

onMessage(D, p, t) ==
    IF ~p.json THEN D ELSE handleMessages(D, p.msgs, t)

(***************************************************************************)
(* main (index.ts): the reconciliation of one market refresh               *)
(***************************************************************************)
toRemove_none(D, desiredIds) == <<>>

toRemove(D, desiredIds) ==
    SelectSeq(D.watchedMarkets, LAMBDA m : m \notin desiredIds)

refresh(D, desired) ==
    LET desiredIds == SeqRange(desired)
        toAdd == SelectSeq(desired, LAMBDA m : m \notin D.watchedIds)
        D1 == IF Len(toAdd) > 0
              THEN LET A == Watcher_addMarkets(
                                Detector_addMarkets(
                                    [D EXCEPT !.out = Append(@,
                                        [kind |-> "scanLog", tag |-> "Scanner Adding",
                                         marketId |-> ""])],
                                    toAdd),
                                toAdd)
                   IN [A EXCEPT !.watchedIds = @ \cup SeqRange(toAdd)]
              ELSE D
        removed == toRemove(D1, desiredIds)
        D2 == IF Len(removed) > 0
              THEN LET R == Watcher_removeMarkets(
                                Detector_removeMarkets(
                                    [D1 EXCEPT !.out = Append(@,
                                        [kind |-> "scanLog", tag |-> "Scanner Removing",
                                         marketId |-> ""])],
                                    removed),
                                removed)
                   IN [R EXCEPT !.watchedIds = @ \ SeqRange(removed)]
              ELSE D1
    IN [D2 EXCEPT !.watchedMarkets = desired]

(***************************************************************************)
(* Reading the calls of a handler                                          *)
(***************************************************************************)
EventsFor(calls, m) ==
    {i \in DOMAIN calls : calls[i].kind = "onEvent" /\ calls[i].marketId = m}
WindowsFor(calls, m) ==
    {i \in DOMAIN calls : calls[i].kind = "onWindow" /\ calls[i].window.marketId = m}
LogsFor(calls, m, tag) ==
    {i \in DOMAIN calls :
        calls[i].kind = "scanLog" /\ calls[i].tag = tag /\ calls[i].marketId = m}
ArbTick(calls, m) == \E i \in EventsFor(calls, m) : calls[i].isArb
NonArbTick(calls, m) == \E i \in EventsFor(calls, m) : ~calls[i].isArb
Removed(m) == m \in markets /\ m \notin markets'
ReportedFor(m) == SelectSeq(reported, LAMBDA w : w.marketId = m)
OpenLongEnough(m) ==
    MapHas(windows, m) /\ Len(windows[m].spreads) >= MIN_ARB_TICKS

(***************************************************************************)
(* Observers of the callbacks                                              *)
(***************************************************************************)
RECURSIVE WindowsOf(_)
WindowsOf(calls) ==
    IF calls = <<>> THEN <<>>
    ELSE IF Head(calls).kind = "onWindow"
         THEN <<Head(calls).window>> \o WindowsOf(Tail(calls))
         ELSE WindowsOf(Tail(calls))

(* What the callbacks have shown of one market since it was last added:   *)
(* the length of the current run of arb ticks, the combined ask and the    *)
(* times of the first and last arb tick of the run, and the count, total   *)
(* and longest duration of the windows reported.                           *)
Unobserved ==
    [run |-> 0, combined |-> NULL, firstArb |-> NULL, lastArb |-> NULL,
     count |-> 0, sum |-> 0, longest |-> 0]

RECURSIVE Observe(_, _)
Observe(obs, calls) ==
    IF calls = <<>> THEN obs
    ELSE LET c == Head(calls)
             obs1 == IF c.kind = "scanLog" /\ c.tag = "Market Watching"
                     THEN [obs EXCEPT ![c.marketId] = Unobserved]
                     ELSE IF c.kind = "onEvent"
                     THEN [obs EXCEPT ![c.marketId] =
                             [@ EXCEPT
                                !.run = IF c.isArb THEN @ + 1 ELSE 0,
                                !.combined = c.combined,
                                !.firstArb = IF ~c.isArb THEN NULL
                                             ELSE IF obs[c.marketId].run = 0
                                                  THEN c.timestamp[2] ELSE @,
                                !.lastArb = IF c.isArb THEN c.timestamp[2] ELSE NULL]]
                     ELSE IF c.kind = "onWindow"
                     THEN [obs EXCEPT ![c.window.marketId] =
                             [@ EXCEPT
                                !.count = @ + 1,
                                !.sum = @ + c.window.durationMs,
                                !.longest = IF c.window.durationMs > @
                                            THEN c.window.durationMs ELSE @]]
                     ELSE obs
         IN Observe(obs1, Tail(calls))

(* A removed market keeps no record of its windows: the next addition     *)
(* starts the record afresh.                                               *)
Forget(obs, watched) ==
    [m \in DOMAIN obs |->
        IF m \in watched THEN obs[m]
        ELSE [obs[m] EXCEPT !.count = 0, !.sum = 0, !.longest = 0,
                            !.firstArb = NULL, !.lastArb = NULL]]

StillInterrupted(ms, D) ==
    {m \in ms : MapHas(D.windows, m) /\ LogsFor(D.out, m, "ARB OPEN") = {}}

(***************************************************************************)
(* Inputs.  A feed payload is handled message by message; one step of      *)
(* HandleMessage is the handling of one message.  Only the tokens of m1    *)
(* receive data: m2 is a market whose books stay empty, so it is watched   *)
(* and removed alongside m1 without ever being decided.                    *)
(***************************************************************************)
Level(p, s) == [price |-> p, size |-> s]
Change(p, sd, s) == [price |-> p, side |-> sd, size |-> s]
Book(t, asks, bids) == [asset_id |-> t, event_type |-> "book", asks |-> asks, bids |-> bids]
PriceChange(t, changes) == [asset_id |-> t, event_type |-> "price_change", changes |-> changes]
LastTrade(t) == [asset_id |-> t, event_type |-> "last_trade_price"]
BidPrices == {3}
SnapshotAsks == {<<Level(4, 1)>>, <<Level(6, 1)>>, <<Level(6, 1), Level(5, 1)>>}
SnapshotBids == {<<Level(p, 1)>> : p \in BidPrices}
ChangeLists == {<<Change(5, "SELL", 0)>>}
FeedTokens == {yesTokenId("m1"), noTokenId("m1")}
Frames ==
    [asset_id : FeedTokens, event_type : {"book"}, asks : SnapshotAsks, bids : {<<>>}]
    \cup [asset_id : FeedTokens, event_type : {"book"}, asks : {<<>>}, bids : SnapshotBids]
    \cup [asset_id : FeedTokens, event_type : {"price_change"}, changes : ChangeLists]
DesiredLists == {<<>>, <<"m1">>, <<"m2">>, <<"m1", "m2">>}

NoPayload == [text |-> "", json |-> FALSE, msgs |-> <<>>]
InvalidJSON == [text |-> "not json", json |-> FALSE, msgs |-> <<>>]
Object(msg) == [text |-> "object", json |-> TRUE, msgs |-> <<msg>>]
Array(msgs) == [text |-> "array", json |-> TRUE, msgs |-> msgs]

(***************************************************************************)
(* State machine                                                           *)
(***************************************************************************)
NoPins == [attempt |-> [tf \in Timeframes |-> {}], success |-> [tf \in Timeframes |-> {}]]
NoFetches == [pending |-> <<>>, completed |-> <<>>]
NoCall == [fn |-> "none"]
NoEvents == [pending |-> {}, opened |-> {}, closed |-> {}]

Cur ==
    [markets |-> markets, tokenToMarket |-> tokenToMarket, stats |-> stats,
     windows |-> windows, books |-> books, bestAsks |-> bestAsks,
     bestBids |-> bestBids, subscribedTokens |-> subscribedTokens,
     totalUpdates |-> totalUpdates, watchedMarkets |-> watchedMarkets,
     watchedIds |-> watchedIds, open |-> pc = "open" /\ shouldRun, out |-> <<>>, trace |-> <<>>,
     threw |-> FALSE]

Becomes(D) ==
    /\ markets' = D.markets
    /\ tokenToMarket' = D.tokenToMarket
    /\ stats' = D.stats
    /\ windows' = D.windows
    /\ books' = D.books
    /\ bestAsks' = D.bestAsks
    /\ bestBids' = D.bestBids
    /\ subscribedTokens' = D.subscribedTokens
    /\ totalUpdates' = D.totalUpdates
    /\ watchedMarkets' = D.watchedMarkets
    /\ watchedIds' = D.watchedIds
    /\ out' = D.out
    /\ reported' = reported \o WindowsOf(D.out)
    /\ observed' = Forget(Observe(observed, D.out), D.markets)
    /\ interrupted' = StillInterrupted(interrupted, D)
    /\ trace' = D.trace

Constructed ==
    /\ markets = {}
    /\ tokenToMarket = EmptyMap
    /\ stats = EmptyMap
    /\ windows = EmptyMap
    /\ books = EmptyMap
    /\ bestAsks = EmptyMap
    /\ bestBids = EmptyMap
    /\ subscribedTokens = {}
    /\ totalUpdates = 0
    /\ watchedMarkets = <<>>
    /\ watchedIds = {}
    /\ reconnectDelay = INITIAL_DELAY
    /\ shouldRun = TRUE
    /\ now = 0
    /\ out = <<>>
    /\ reported = <<>>
    /\ observed = [m \in Markets |-> Unobserved]
    /\ payload = NoPayload
    /\ nMessages = 0
    /\ lastWait = NULL
    /\ failures = 0
    /\ interrupted = {}
    /\ failedBefore = NULL
    /\ sentTokens = {}
    /\ trace = <<>>
    /\ allMarkets = <<>>
    /\ fetched = "none"
    /\ pinned = NoPins
    /\ fetches = NoFetches
    /\ inflight = {}
    /\ file = <<>>
    /\ totalWindows = 0
    /\ table = {}
    /\ queue = NoEvents

connVars == <<pc, reconnectDelay, shouldRun, lastWait, failures>>
feedVars == <<payload, nMessages>>
connObs == <<failedBefore, sentTokens>>
catalogVars == <<allMarkets, proc, fetched, pinned, fetches>>
logVars == <<inflight, file, totalWindows>>
writerVars == <<table, queue>>
fnVars == <<call, ret>>
otherVars == <<catalogVars, logVars, writerVars, fnVars>>

(* The 'message' event of the socket with payload p. *)
Deliver(p) ==
    /\ Becomes(onMessage(Cur, p, now))
    /\ UNCHANGED <<now, connVars, otherVars>>

RefreshTo(desired) ==
    /\ Becomes(refresh(Cur, desired))
    /\ UNCHANGED <<now, connVars, feedVars, otherVars>>

(* Spec: the connection is open from the start. *)
Idle == call = NoCall /\ ret = NoCall

Init == Constructed /\ pc = "open" /\ proc = "running" /\ Idle

HandleMessage ==
    \E msg \in Frames :
        /\ totalUpdates < MaxUpdates
        /\ Deliver(Object(msg))
        /\ UNCHANGED <<feedVars, connObs>>

Refresh ==
    \E desired \in DesiredLists :
        /\ RefreshTo(desired)
        /\ UNCHANGED connObs

Advance ==
    /\ now < MaxTime
    /\ now' = now + 1
    /\ out' = <<>>
    /\ trace' = <<>>
    /\ UNCHANGED <<markets, tokenToMarket, stats, windows, books, bestAsks, bestBids,
                   subscribedTokens, totalUpdates, watchedMarkets, watchedIds,
                   reported, observed, connVars, feedVars, interrupted, connObs,
                   otherVars>>

Next == HandleMessage \/ Refresh \/ Advance

Spec == Init /\ [][Next]_vars

(***************************************************************************)
(* ConnSpec: the connect loop.  pc is "idle" before connect() is called,   *)
(* "connecting" from new WebSocket to the 'open' event, "open" until the   *)
(* 'close' or 'error' event, "sleeping" during sleep(reconnectDelay) and   *)
(* "returned" once the loop has ended.  Frames arrive while the socket is  *)
(* open.                                                                   *)
(***************************************************************************)
MaxFailures == 6

Min(a, b) == IF a < b THEN a ELSE b

(* The tokens of the subscriptions among the calls of one step. *)
Sent(calls) ==
    UNION {calls[i].assets_ids : i \in {j \in DOMAIN calls : calls[j].kind = "send"}}

delayAfterOpen_keep(d) == d

delayAfterOpen(d) == INITIAL_DELAY

ConnFrames ==
    {Book(t, asks, <<>>) : t \in FeedTokens, asks \in {<<Level(4, 1)>>, <<Level(6, 1)>>}}

ConnDesiredLists == {<<>>, <<"m1">>}

ConnInit == Constructed /\ pc = "idle" /\ proc = "running" /\ Idle

(* The test of the while loop of connect: another connectOnce, or the end *)
(* of the loop.                                                            *)
whileShouldRun_always(run) == "connecting"

whileShouldRun(run) == IF run THEN "connecting" ELSE "returned"

Connect ==
    /\ pc = "idle"
    /\ pc' = whileShouldRun(shouldRun)
    /\ out' = <<>>
    /\ trace' = <<>>
    /\ sentTokens' = {}
    /\ UNCHANGED <<markets, tokenToMarket, stats, windows, books, bestAsks, bestBids,
                   subscribedTokens, totalUpdates, watchedMarkets, watchedIds,
                   reconnectDelay, shouldRun, now, reported, observed, feedVars,
                   lastWait, failures, interrupted, failedBefore, otherVars>>

Open ==
    /\ pc = "connecting"
    /\ shouldRun
    /\ Becomes(Socket_onOpen([Cur EXCEPT !.open = TRUE]))
    /\ pc' = "open"
    /\ reconnectDelay' = delayAfterOpen(reconnectDelay)
    /\ failures' = 0
    /\ failedBefore' = failures
    /\ sentTokens' = sentTokens \cup Sent(out')
    /\ UNCHANGED <<shouldRun, now, feedVars, lastWait, otherVars>>

(* The 'close' or the 'error' event of the socket, and connect up to its   *)
(* sleep.                                                                  *)
Fail ==
    /\ pc \in {"connecting", "open"}
    /\ shouldRun => failures < MaxFailures
    /\ IF shouldRun
       THEN /\ pc' = "sleeping"
            /\ lastWait' = reconnectDelay
            /\ failures' = failures + 1
       ELSE /\ pc' = "returned"
            /\ UNCHANGED <<lastWait, failures>>
    /\ interrupted' = DOMAIN windows
    /\ out' = <<>>
    /\ trace' = <<>>
    /\ sentTokens' = {}
    /\ UNCHANGED <<markets, tokenToMarket, stats, windows, books, bestAsks, bestBids,
                   subscribedTokens, totalUpdates, watchedMarkets, watchedIds,
                   reconnectDelay, shouldRun, now, reported, observed, feedVars,
                   failedBefore, otherVars>>

(* The end of the sleep and the rest of the loop body. *)
Wake ==
    /\ pc = "sleeping"
    /\ reconnectDelay' = Min(reconnectDelay * 2, MAX_DELAY)
    /\ pc' = whileShouldRun(shouldRun)
    /\ out' = <<>>
    /\ trace' = <<>>
    /\ UNCHANGED <<markets, tokenToMarket, stats, windows, books, bestAsks, bestBids,
                   subscribedTokens, totalUpdates, watchedMarkets, watchedIds,
                   shouldRun, now, reported, observed, feedVars, lastWait, failures,
                   interrupted, connObs, otherVars>>

Stop ==
    /\ shouldRun
    /\ shouldRun' = FALSE
    /\ out' = <<>>
    /\ trace' = <<>>
    /\ UNCHANGED <<markets, tokenToMarket, stats, windows, books, bestAsks, bestBids,
                   subscribedTokens, totalUpdates, watchedMarkets, watchedIds,
                   pc, reconnectDelay, now, reported, observed, feedVars, lastWait,
                   failures, interrupted, connObs, otherVars>>

ConnMessage ==
    \E msg \in ConnFrames :
        /\ pc = "open"
        /\ totalUpdates < MaxUpdates
        /\ Deliver(Object(msg))
        /\ sentTokens' = sentTokens \cup Sent(out')
        /\ UNCHANGED <<feedVars, failedBefore>>

ConnRefresh ==
    \E desired \in ConnDesiredLists :
        /\ pc # "returned"
        /\ RefreshTo(desired)
        /\ sentTokens' = sentTokens \cup Sent(out')
        /\ UNCHANGED failedBefore

ConnNext == Connect \/ Open \/ Fail \/ Wake \/ Stop \/ ConnMessage \/ ConnRefresh

ConnSpec == ConnInit /\ [][ConnNext]_vars

(* ConnLiveSpec: the connect loop with what its scheduling guarantees.     *)
(* connect() runs its loop test once called; a timer that was set fires,   *)
(* so a sleep ends; and stop() calls ws.close(), after which the socket,   *)
(* open or still connecting, emits its 'close' (or 'error') event.         *)
ConnLiveSpec ==
    /\ ConnSpec
    /\ WF_vars(Connect)
    /\ WF_vars(Wake)
    /\ WF_vars(~shouldRun /\ Fail)

(***************************************************************************)
(* FeedSpec: the 'message' handler under every kind of payload.  Frames    *)
(* arrive for the tokens of m1 whether m1 is watched or not.               *)
(***************************************************************************)
MaxMessages == 3

FeedMsgsFor(t) ==
    {Book(t, <<Level(4, 1)>>, <<Level(3, 1)>>),
     Book(t, <<Level(6, 1), Level(4, 0)>>, <<>>),
     Book(t, <<NullEntry>>, <<Level(3, 1)>>),
     PriceChange(t, <<Change(4, "SELL", 0)>>),
     PriceChange(t, <<Change(5, "SELL", -1)>>),
     PriceChange(t, <<Change(5, "SELL", 2), NullEntry>>),
     LastTrade(t)}

FeedPayloads ==
    {Object(msg) : msg \in UNION {FeedMsgsFor(t) : t \in FeedTokens}}
    \cup {InvalidJSON,
          Object(Book("", <<Level(4, 1)>>, <<>>)),
          Array(<<Book("y1", <<Level(4, 1)>>, <<>>), NullEntry>>),
          Array(<<Book("y1", <<Level(4, 1)>>, <<>>), Book("n1", <<Level(4, 1)>>, <<>>)>>)}

FeedDesiredLists == {<<>>, <<"m1">>}

Receive ==
    \E p \in FeedPayloads :
        /\ nMessages < MaxMessages
        /\ Deliver(p)
        /\ payload' = p
        /\ nMessages' = nMessages + 1
        /\ UNCHANGED connObs

FeedRefresh ==
    \E desired \in FeedDesiredLists :
        /\ RefreshTo(desired)
        /\ UNCHANGED connObs

FeedNext == Receive \/ FeedRefresh

FeedSpec == Init /\ [][FeedNext]_vars

(***************************************************************************)
(* CatalogSpec: main (index.ts) from its start: the initial fetch of the   *)
(* catalog, the selection of the watched markets, the refresh interval and *)
(* the clock.  The feed opens once and stays open.                         *)
(***************************************************************************)
MaxCatalogTime == 3
MaxCatalogUpdates == 2

startOf(m) == IF startAt(m) # NULL THEN startAt(m) ELSE 0
endOf(m) == IF expiresAt(m) # NULL THEN expiresAt(m) ELSE Infinity

RECURSIVE timeframesOf(_)
timeframesOf(ms) ==
    IF ms = <<>> THEN <<>>
    ELSE LET rest == timeframesOf(SelectSeq(Tail(ms),
                                  LAMBDA m : timeframe(m) # timeframe(Head(ms))))
         IN <<timeframe(Head(ms))>> \o rest

firstUpcoming_unsorted(upcoming) == upcoming[1]

(* The head of the upcoming markets after the stable sort by startAt. *)
firstUpcoming(upcoming) ==
    upcoming[CHOOSE i \in DOMAIN upcoming :
                 \A j \in DOMAIN upcoming :
                     \/ startOf(upcoming[i]) < startOf(upcoming[j])
                     \/ startOf(upcoming[i]) = startOf(upcoming[j]) /\ i <= j]

pinOfGroup_none(upcoming) == <<>>

pinOfGroup(upcoming) ==
    IF Len(upcoming) > 0 THEN <<firstUpcoming(upcoming)>> ELSE <<>>

RECURSIVE selectGroups(_, _, _)
selectGroups(tfs, ms, t) ==
    IF tfs = <<>> THEN <<>>
    ELSE LET group == SelectSeq(ms, LAMBDA m : timeframe(m) = Head(tfs))
             live == SelectSeq(group, LAMBDA m : startOf(m) <= t)
             upcoming == SelectSeq(group, LAMBDA m : ~(startOf(m) <= t))
         IN live \o pinOfGroup(upcoming) \o selectGroups(Tail(tfs), ms, t)

selectWatchedMarkets(all, t) ==
    LET ms == SelectSeq(all, LAMBDA m : ~(endOf(m) <= t))
    IN selectGroups(timeframesOf(ms), ms, t)

(* fetchMarkets: it throws (ok is FALSE) or returns the listed markets,    *)
(* ordered by end date, none of which ended before the call.               *)
Failed == [ok |-> FALSE, markets |-> <<>>]
Listings == {<<>>, <<"m1">>, <<"m2">>, <<"m1", "m2">>}
fetchMarkets(t) ==
    {Failed} \cup
    {[ok |-> TRUE, markets |-> l] :
        l \in {x \in Listings : \A i \in DOMAIN x : ~(expiresAt(x[i]) < t)}}

Log(D, tag) ==
    [D EXCEPT !.out = Append(@, [kind |-> "scanLog", tag |-> tag, marketId |-> ""])]

(* main up to its await of watcher.connect(): S is the program state with  *)
(* fields D, allMarkets and proc.                                          *)
main(S, res, t) ==
    IF ~res.ok
    THEN [S EXCEPT !.D = Log(@, "Scanner Failed to fetch markets"), !.proc = "exited"]
    ELSE LET sel == selectWatchedMarkets(res.markets, t)
             D1 == Watcher_addMarkets(Detector_addMarkets(S.D, sel), sel)
         IN [D |-> [D1 EXCEPT !.watchedMarkets = sel, !.watchedIds = SeqRange(sel)],
             allMarkets |-> res.markets,
             proc |-> "running"]

(* The callback of the refresh interval, from the completion of its fetch. *)
refreshFailed_reselect(S, t) ==
    LET pruned == SelectSeq(S.allMarkets, LAMBDA m : expiresAt(m) = NULL \/ expiresAt(m) > t)
    IN [S EXCEPT !.D = refresh(Log(@, "Scanner Market refresh failed"),
                               selectWatchedMarkets(pruned, t)),
                 !.allMarkets = pruned]

refreshFailed(S, t) ==
    [S EXCEPT !.D = Log(@, "Scanner Market refresh failed")]

onInterval(S, res, t) ==
    IF ~res.ok THEN refreshFailed(S, t)
    ELSE LET knownIds == SeqRange(S.allMarkets)
             newOnes == SelectSeq(res.markets, LAMBDA m : m \notin knownIds)
             D1 == IF Len(newOnes) > 0 THEN Log(S.D, "Scanner Discovered") ELSE S.D
             merged == S.allMarkets \o newOnes
             pruned == SelectSeq(merged, LAMBDA m : expiresAt(m) = NULL \/ expiresAt(m) > t)
         IN [S EXCEPT !.D = refresh(D1, selectWatchedMarkets(pruned, t)),
                      !.allMarkets = pruned]

(* Observer: per timeframe, the known markets that start the soonest after t. *)
NearestUpcoming(known, t) ==
    [tf \in Timeframes |->
        LET ups == {m \in SeqRange(known) : timeframe(m) = tf /\ startOf(m) > t}
        IN {m \in ups : \A x \in ups : startOf(m) <= startOf(x)}]

CurS == [D |-> Cur, allMarkets |-> allMarkets, proc |-> proc]

BecomesS(S, res) ==
    /\ Becomes(S.D)
    /\ allMarkets' = S.allMarkets
    /\ proc' = S.proc
    /\ fetched' = IF res.ok THEN "ok" ELSE "failed"
    /\ pinned' = [attempt |-> NearestUpcoming(S.allMarkets, now),
                  success |-> IF res.ok THEN NearestUpcoming(S.allMarkets, now)
                              ELSE pinned.success]

CatalogInit == Constructed /\ pc = "idle" /\ proc = "starting" /\ Idle

Startup ==
    \E res \in fetchMarkets(now) :
        /\ proc = "starting"
        /\ BecomesS(main(CurS, res, now), res)
        /\ pc' = IF res.ok THEN "connecting" ELSE pc
        /\ UNCHANGED <<reconnectDelay, shouldRun, lastWait, failures, now, feedVars,
                       connObs, fetches, logVars, writerVars, fnVars>>

RefreshCycle ==
    \E res \in fetchMarkets(now) :
        /\ proc = "running"
        /\ BecomesS(onInterval(CurS, res, now), res)
        /\ UNCHANGED <<connVars, now, feedVars, connObs, fetches, logVars, writerVars,
                       fnVars>>

CatalogOpen ==
    /\ proc = "running"
    /\ pc = "connecting"
    /\ Becomes(Socket_onOpen([Cur EXCEPT !.open = TRUE]))
    /\ pc' = "open"
    /\ reconnectDelay' = delayAfterOpen(reconnectDelay)
    /\ fetched' = "none"
    /\ UNCHANGED <<shouldRun, lastWait, failures, now, feedVars, connObs, allMarkets,
                   proc, pinned, fetches, logVars, writerVars, fnVars>>

CatalogMessage ==
    \E msg \in ConnFrames :
        /\ proc = "running"
        /\ pc = "open"
        /\ totalUpdates < MaxCatalogUpdates
        /\ Becomes(onMessage(Cur, Object(msg), now))
        /\ fetched' = "none"
        /\ UNCHANGED <<connVars, now, feedVars, connObs, allMarkets, proc, pinned,
                       fetches, logVars, writerVars, fnVars>>

Tick ==
    /\ proc = "running"
    /\ now < MaxCatalogTime
    /\ now' = now + 1
    /\ out' = <<>>
    /\ trace' = <<>>
    /\ fetched' = "none"
    /\ UNCHANGED <<markets, tokenToMarket, stats, windows, books, bestAsks, bestBids,
                   subscribedTokens, totalUpdates, watchedMarkets, watchedIds,
                   reported, observed, connVars, feedVars, interrupted, connObs,
                   allMarkets, proc, pinned, fetches, logVars, writerVars, fnVars>>

CatalogNext == Startup \/ RefreshCycle \/ CatalogOpen \/ CatalogMessage \/ Tick

CatalogSpec == CatalogInit /\ [][CatalogNext]_vars

(***************************************************************************)
(* OverlapSpec: the refresh interval with its await.  The callback starts  *)
(* a fetchMarkets call and yields; the interval can fire again before the  *)
(* call completes, and the pending calls complete in any order.  The rest  *)
(* of the callback runs from the completion without yielding.  No feed    *)
(* message arrives: the books of the subscribed tokens stay empty.         *)
(***************************************************************************)
MaxPending == 2
MaxOverlapTime == 2

(* The pending calls without the i-th; those started before it have been   *)
(* overtaken by it.                                                        *)
Overtake(pending, i) ==
    [j \in 1 .. Len(pending) - 1 |->
        IF j < i THEN [pending[j] EXCEPT !.overtaken = TRUE] ELSE pending[j + 1]]

FetchStarts ==
    \E res \in fetchMarkets(now) :
        /\ proc = "running"
        /\ Len(fetches.pending) < MaxPending
        /\ fetches' = [fetches EXCEPT !.pending =
                          Append(@, [res |-> res, overtaken |-> FALSE])]
        /\ out' = <<>>
        /\ trace' = <<>>
        /\ fetched' = "none"
        /\ UNCHANGED <<markets, tokenToMarket, stats, windows, books, bestAsks, bestBids,
                       subscribedTokens, totalUpdates, watchedMarkets, watchedIds,
                       reported, observed, now, connVars, feedVars, interrupted, connObs,
                       allMarkets, proc, pinned, logVars, writerVars, fnVars>>

FetchCompletes ==
    \E i \in DOMAIN fetches.pending :
        /\ proc = "running"
        /\ BecomesS(onInterval(CurS, fetches.pending[i].res, now), fetches.pending[i].res)
        /\ fetches' = [pending |-> Overtake(fetches.pending, i),
                       completed |-> <<fetches.pending[i]>>]
        /\ UNCHANGED <<connVars, now, feedVars, connObs, logVars, writerVars, fnVars>>

OverlapTick ==
    /\ proc = "running"
    /\ now < MaxOverlapTime
    /\ now' = now + 1
    /\ out' = <<>>
    /\ trace' = <<>>
    /\ fetched' = "none"
    /\ UNCHANGED <<markets, tokenToMarket, stats, windows, books, bestAsks, bestBids,
                   subscribedTokens, totalUpdates, watchedMarkets, watchedIds,
                   reported, observed, connVars, feedVars, interrupted, connObs,
                   allMarkets, proc, pinned, fetches, logVars, writerVars, fnVars>>

OverlapNext == Startup \/ FetchStarts \/ FetchCompletes \/ OverlapTick

OverlapSpec == CatalogInit /\ [][OverlapNext]_vars

(***************************************************************************)
(* LogSpec: the Logger behind onWindow.  logWindow starts an fs.appendFile *)
(* and returns; the append completes later, and appends that are pending   *)
(* together complete in any order.  Both markets receive data.             *)
(***************************************************************************)
MaxLogUpdates == 6

LogFrames == {Book(t, <<Level(4, 1)>>, <<>>) : t \in TokenIds}

LogDesiredLists == {<<>>, <<"m1", "m2">>}

(* L is the Logger with fields totalWindows and inflight; a pending append *)
(* carries its row and the number of the logWindow call that started it.   *)
logWindow(L, window) ==
    [totalWindows |-> L.totalWindows + 1,
     inflight |-> L.inflight \cup {[seq |-> L.totalWindows + 1, row |-> window]}]

RECURSIVE logWindows(_, _)
logWindows(L, ws) ==
    IF ws = <<>> THEN L ELSE logWindows(logWindow(L, Head(ws)), Tail(ws))

Logged(D) ==
    LET L == logWindows([totalWindows |-> totalWindows, inflight |-> inflight],
                        WindowsOf(D.out))
    IN /\ Becomes(D)
       /\ totalWindows' = L.totalWindows
       /\ inflight' = L.inflight
       /\ UNCHANGED <<file, now, connVars, feedVars, connObs, catalogVars, writerVars,
                      fnVars>>

LogMessage ==
    \E msg \in LogFrames :
        /\ totalUpdates < MaxLogUpdates
        /\ Logged(onMessage(Cur, Object(msg), now))

LogRefresh ==
    \E desired \in LogDesiredLists :
        /\ proc = "running"
        /\ Logged(refresh(Cur, desired))

(* The completion of one pending append. *)
AppendDone ==
    \E a \in inflight :
        /\ file' = Append(file, a)
        /\ inflight' = inflight \ {a}
        /\ out' = <<>>
        /\ trace' = <<>>
        /\ UNCHANGED <<markets, tokenToMarket, stats, windows, books, bestAsks, bestBids,
                       subscribedTokens, totalUpdates, watchedMarkets, watchedIds,
                       reported, observed, now, connVars, feedVars, interrupted, connObs,
                       catalogVars, totalWindows, writerVars, fnVars>>

LogNext == LogMessage \/ LogRefresh \/ AppendDone

LogSpec == Init /\ [][LogNext]_vars

(***************************************************************************)
(* WriterSpec: the persistence writer (DbWriter) over the windows table.   *)
(* The detector enqueues the Open event of a window and later its Close    *)
(* event; the writer takes the pending events of a window in either order, *)
(* and an Open event can be dropped on overflow.  The table has an         *)
(* autoincrement id and no unique key on (market_id, opened_at).           *)
(***************************************************************************)
MaxWriterWindows == 2

OpenedAts == {0, 1}
WriterWindows == [market_id : Markets, opened_at : OpenedAts]

OpenEvent(w) == [kind |-> "open", market_id |-> w.market_id, opened_at |-> w.opened_at]
CloseEvent(w) ==
    [kind |-> "close", market_id |-> w.market_id, opened_at |-> w.opened_at,
     closed_at |-> w.opened_at + 1, duration_ms |-> 1]

Insert(t, fields) ==
    t \cup {[id |-> Cardinality(t) + 1, market_id |-> fields.market_id,
              opened_at |-> fields.opened_at, closed_at |-> fields.closed_at,
              duration_ms |-> fields.duration_ms]}

write_window_open(t, e) ==
    Insert(t, [market_id |-> e.market_id, opened_at |-> e.opened_at,
               closed_at |-> NULL, duration_ms |-> NULL])

write_window_close(t, e) ==
    LET matching == {r \in t : /\ r.market_id = e.market_id
                               /\ r.opened_at = e.opened_at
                               /\ r.closed_at = NULL}
    IN IF matching # {}
       THEN {IF r \in matching
             THEN [r EXCEPT !.closed_at = e.closed_at, !.duration_ms = e.duration_ms]
             ELSE r : r \in t}
       ELSE Insert(t, e)

WriterStep(t, q) ==
    /\ table' = t
    /\ queue' = q
    /\ UNCHANGED <<markets, tokenToMarket, stats, windows, books, bestAsks, bestBids,
                   subscribedTokens, totalUpdates, watchedMarkets, watchedIds,
                   out, trace, reported, observed, now, connVars, feedVars, interrupted,
                   connObs, catalogVars, logVars, fnVars>>

enqueue_open ==
    \E w \in WriterWindows \ queue.opened :
        /\ Cardinality(queue.opened) < MaxWriterWindows
        /\ WriterStep(table, [queue EXCEPT !.pending = @ \cup {OpenEvent(w)},
                                           !.opened = @ \cup {w}])

enqueue_close ==
    \E w \in queue.opened \ queue.closed :
        /\ WriterStep(table, [queue EXCEPT !.pending = @ \cup {CloseEvent(w)},
                                           !.closed = @ \cup {w}])

WriteOpen ==
    \E e \in queue.pending :
        /\ e.kind = "open"
        /\ WriterStep(write_window_open(table, e), [queue EXCEPT !.pending = @ \ {e}])

WriteClose ==
    \E e \in queue.pending :
        /\ e.kind = "close"
        /\ WriterStep(write_window_close(table, e), [queue EXCEPT !.pending = @ \ {e}])

DropOpen ==
    \E e \in queue.pending :
        /\ e.kind = "open"
        /\ WriterStep(table, [queue EXCEPT !.pending = @ \ {e}])

WriterNext == enqueue_open \/ enqueue_close \/ WriteOpen \/ WriteClose \/ DropOpen

WriterSpec == Init /\ [][WriterNext]_vars

(***************************************************************************)
(* Pure functions.  A specification of a pure function starts with the     *)
(* arguments of one call in the variable call and applies the function in  *)
(* its only step.                                                          *)
(***************************************************************************)
Returns(v) ==
    /\ ret = NoCall
    /\ ret' = v
    /\ UNCHANGED <<markets, tokenToMarket, stats, windows, books, bestAsks, bestBids,
                   subscribedTokens, totalUpdates, watchedMarkets, watchedIds,
                   out, trace, reported, observed, now, connVars, feedVars, interrupted,
                   connObs, catalogVars, logVars, writerVars, call>>

(***************************************************************************)
(* ClassifySpec: the classifier, from the tables of its conditions.  A     *)
(* label is the set of the table rows whose condition holds.               *)
(***************************************************************************)
MaxTickCount == 4

OpenDurationClasses(o) ==
    {c \in {"SingleTick", "MultiTick"} :
        \/ c = "SingleTick" /\ o.tick_count < MIN_ARB_TICKS
        \/ c = "MultiTick" /\ o.tick_count >= MIN_ARB_TICKS}

CloseReasons(o) ==
    IF "MultiTick" \notin OpenDurationClasses(o) THEN {}
    ELSE {r \in {"VolumeSpikeGradual", "VolumeSpikeInstant", "PriceDrift", "OrderVanished"} :
            \/ r = "VolumeSpikeGradual" /\ o.trade_event_fired /\ o.volume_change_ticks > 1
            \/ r = "VolumeSpikeInstant" /\ o.trade_event_fired /\ o.volume_change_ticks = 1
            \/ r = "PriceDrift" /\ ~o.trade_event_fired /\ o.price_shifted
            \/ r = "OrderVanished" /\ ~o.trade_event_fired /\ ~o.price_shifted}

OpportunityClasses(o) ==
    {p \in 0 .. 4 :
        \/ p = 0 /\ "SingleTick" \in OpenDurationClasses(o)
        \/ p = 1 /\ "VolumeSpikeGradual" \in CloseReasons(o)
        \/ p = 2 /\ "PriceDrift" \in CloseReasons(o)
        \/ p = 3 /\ "VolumeSpikeInstant" \in CloseReasons(o)
        \/ p = 4 /\ "OrderVanished" \in CloseReasons(o)}

classify(o) ==
    [open_duration_class |-> OpenDurationClasses(o),
     close_reason |-> CloseReasons(o),
     opportunity_class |-> OpportunityClasses(o)]

(* The observables of a window: volume_change_ticks counts ticks of the    *)
(* window, so it does not exceed tick_count.                               *)
Observables ==
    {o \in [fn : {"classify"}, tick_count : 1 .. MaxTickCount,
            trade_event_fired : BOOLEAN, volume_change_ticks : 0 .. MaxTickCount,
            price_shifted : BOOLEAN] : o.volume_change_ticks <= o.tick_count}

ClassifyInit ==
    /\ Constructed /\ pc = "open" /\ proc = "running"
    /\ call \in Observables
    /\ ret = NoCall

Classify ==
    /\ call.fn = "classify"
    /\ Returns(classify(call))

ClassifySpec == ClassifyInit /\ [][Classify]_vars

(***************************************************************************)
(* TokenSpec: the assignment of the Up (YES) and Down (NO) token of one    *)
(* sub-market in fetchMarkets.  Indexes are those of JavaScript (from 0);  *)
(* reading past the end of an array gives undefined.                       *)
(***************************************************************************)
MaxOutcomes == 3

Labels == {"Up", "UP", "Down", "Yes"}
toLowerCase(l) ==
    CASE l = "Up" -> "up" [] l = "UP" -> "up" [] l = "Down" -> "down" [] l = "Yes" -> "yes"

At(array, i) == IF i + 1 \in DOMAIN array THEN array[i + 1] ELSE "undefined"

findIndex(outcomes, label) ==
    LET hits == {i \in DOMAIN outcomes : toLowerCase(outcomes[i]) = label}
    IN IF hits = {} THEN -1 ELSE SetMin(hits) - 1

(* JSON.parse(m.outcomes ?? '[]') and its catch clause. *)
parseOutcomes(text) == IF text.json THEN text.value ELSE <<"Up", "Down">>

assignTokens(m) ==
    LET tokenIds == m.clobTokenIds
        outcomes == parseOutcomes(m.outcomes)
        upIdx == findIndex(outcomes, "up")
        downIdx == findIndex(outcomes, "down")
    IN [upTokenId |-> At(tokenIds, IF upIdx >= 0 THEN upIdx ELSE 0),
        downTokenId |-> At(tokenIds, IF downIdx >= 0 THEN downIdx ELSE 1)]

OutcomeLists == UNION {[1 .. n -> Labels] : n \in 0 .. MaxOutcomes}

SubMarkets ==
    [fn : {"assignTokens"},
     clobTokenIds : {<<"a", "b">>, <<"a", "b", "c">>},
     outcomes : {[json |-> FALSE, value |-> <<>>]}
                \cup {[json |-> TRUE, value |-> l] : l \in OutcomeLists}]

TokenInit ==
    /\ Constructed /\ pc = "open" /\ proc = "running"
    /\ call \in SubMarkets
    /\ ret = NoCall

AssignTokens ==
    /\ call.fn = "assignTokens"
    /\ Returns(assignTokens(call))

TokenSpec == TokenInit /\ [][AssignTokens]_vars

(***************************************************************************)
(* SelectSpec: selectWatchedMarkets on every list of up to MaxKnown        *)
(* different catalog markets, at every time up to MaxSelectTime.           *)
(***************************************************************************)
MaxKnown == 3
MaxSelectTime == 3

MarketLists ==
    {l \in UNION {[1 .. n -> CatalogIds] : n \in 0 .. MaxKnown} :
        \A i, j \in DOMAIN l : i # j => l[i] # l[j]}

Selections ==
    [fn : {"selectWatchedMarkets"}, allMarkets : MarketLists, now : 0 .. MaxSelectTime]

SelectInit ==
    /\ Constructed /\ pc = "open" /\ proc = "running"
    /\ call \in Selections
    /\ ret = NoCall

Select ==
    /\ call.fn = "selectWatchedMarkets"
    /\ Returns([selected |-> selectWatchedMarkets(call.allMarkets, call.now)])

SelectSpec == SelectInit /\ [][Select]_vars

(***************************************************************************)
(* C1: each market has at most one active window, and it belongs to a      *)
(* watched market; an arb tick for a market that already has a window      *)
(* extends that window (same start, same opening price, one more spread)   *)
(* and opens no other one.                                                 *)
(***************************************************************************)
C1_OneWindowExtended ==
    /\ [](DOMAIN windows \subseteq markets)
    /\ [][\A m \in Markets :
            (MapHas(windows, m) /\ ArbTick(out', m)) =>
                /\ MapHas(windows', m)
                /\ windows'[m].startTs = windows[m].startTs
                /\ windows'[m].openCombined = windows[m].openCombined
                /\ Len(windows'[m].spreads) = Len(windows[m].spreads) + 1
                /\ SubSeq(windows'[m].spreads, 1, Len(windows[m].spreads))
                       = windows[m].spreads
                /\ LogsFor(out', m, "ARB OPEN") = {}
                /\ DOMAIN windows' = DOMAIN windows]_vars

C1_Witness ==
    \E m \in Markets :
        /\ MapHas(windows, m)
        /\ Len(windows[m].spreads) = 2
        /\ ArbTick(out, m)

(***************************************************************************)
(* C2: a window is a maximal run of arb ticks: the active window of a      *)
(* watched market holds exactly the arb events since the last non-arb      *)
(* event (or the market's addition), there is no window when that run is   *)
(* empty, and the tickCount of every reported window is the length of the  *)
(* run that the closing event ended.                                       *)
(***************************************************************************)
C2_MaximalRun ==
    /\ [](\A m \in markets :
            IF MapHas(windows, m)
            THEN Len(windows[m].spreads) = observed[m].run
            ELSE observed[m].run = 0)
    /\ [][\A i \in DOMAIN out' :
            out'[i].kind = "onWindow" =>
                out'[i].window.tickCount = observed[out'[i].window.marketId].run]_vars

C2_Witness ==
    \E i \in DOMAIN out :
        /\ out[i].kind = "onWindow"
        /\ out[i].window.tickCount >= MIN_ARB_TICKS
        /\ out[i].window.marketId \in markets
        /\ observed[out[i].window.marketId].run = 0

(***************************************************************************)
(* C3: every reported window has tickCount >= MIN_ARB_TICKS; when a window *)
(* with fewer ticks ends (non-arb tick or removal of the market) there is  *)
(* no onWindow call for the market, nothing is added to its reported       *)
(* windows and its windowCount does not change.                            *)
(***************************************************************************)
C3_ShortRunSilent ==
    /\ [](\A i \in DOMAIN reported : reported[i].tickCount >= MIN_ARB_TICKS)
    /\ [][\A m \in Markets :
            (/\ MapHas(windows, m)
             /\ Len(windows[m].spreads) < MIN_ARB_TICKS
             /\ ~MapHas(windows', m)) =>
                /\ WindowsFor(out', m) = {}
                /\ LogsFor(out', m, "ARB CLOSE") = {}
                /\ ReportedFor(m)' = ReportedFor(m)
                /\ MapHas(stats', m) => stats'[m].windowCount = stats[m].windowCount]_vars

C3_Witness ==
    \E m \in markets :
        /\ stats[m].arbTickCount = 1
        /\ stats[m].windowCount = 0
        /\ ~MapHas(windows, m)
        /\ NonArbTick(out, m)
        /\ reported = <<>>

(***************************************************************************)
(* C4: a window with at least MIN_ARB_TICKS ticks is reported exactly once,*)
(* by the first non-arb tick of its market or by the market's removal,     *)
(* which also ends it; no other step reports a window for the market or    *)
(* ends its window.                                                        *)
(***************************************************************************)
C4_ClosedExactlyOnce ==
    [][\A m \in Markets :
        LET closing == NonArbTick(out', m) \/ Removed(m)
            n == Cardinality(WindowsFor(out', m))
        IN IF MapHas(windows, m) /\ closing
           THEN /\ ~MapHas(windows', m)
                /\ n = (IF OpenLongEnough(m) THEN 1 ELSE 0)
                /\ \A i \in WindowsFor(out', m) :
                      /\ out'[i].window.tickCount = Len(windows[m].spreads)
                      /\ out'[i].window.windowStart = toISOString(windows[m].startTs)
                      /\ out'[i].window.openCombined = windows[m].openCombined
                /\ Len(ReportedFor(m)') = Len(ReportedFor(m)) + n
           ELSE /\ n = 0
                /\ ReportedFor(m)' = ReportedFor(m)
                /\ MapHas(windows, m) => MapHas(windows', m)]_vars

C4_Witness ==
    \E m \in Markets :
        /\ NonArbTick(out, m)
        /\ Cardinality(WindowsFor(out, m)) = 1
        /\ Len(ReportedFor(m)) = 1
        /\ ~MapHas(windows, m)

(***************************************************************************)
(* C5: removing a market whose window has at least MIN_ARB_TICKS ticks     *)
(* makes exactly one onWindow call for it, and its closeCombined is the    *)
(* combined price of the last tick decided for that market.                *)
(***************************************************************************)
C5_RemovalReportsLastCombined ==
    [][\A m \in Markets :
        (Removed(m) /\ OpenLongEnough(m)) =>
            /\ Cardinality(WindowsFor(out', m)) = 1
            /\ \A i \in WindowsFor(out', m) :
                  out'[i].window.closeCombined = observed[m].combined]_vars

C5_Witness ==
    \E m \in Markets :
        /\ m \notin markets
        /\ LogsFor(out, "", "Scanner Removing") # {}
        /\ \E i \in WindowsFor(out, m) :
              out[i].window.closeCombined = observed[m].combined

(***************************************************************************)
(* C6 as claimed: the windowEnd of a window closed by the market's removal *)
(* is the time of the removal.                                             *)
(***************************************************************************)
C6_EndIsRemovalTime ==
    [][\A m \in Markets :
        (Removed(m) /\ OpenLongEnough(m)) =>
            \A i \in WindowsFor(out', m) :
                getTime(out'[i].window.windowEnd) = now']_vars

(***************************************************************************)
(* C6 amended: the windowEnd of a window closed by the market's removal is *)
(* the time of the last arb tick of that market, which is not after the    *)
(* time of the removal.                                                    *)
(***************************************************************************)
C6_EndIsLastArbTick ==
    [][\A m \in Markets :
        (Removed(m) /\ OpenLongEnough(m)) =>
            \A i \in WindowsFor(out', m) :
                /\ out'[i].window.windowEnd = toISOString(stats[m].lastArbAt)
                /\ getTime(out'[i].window.windowEnd) <= now']_vars

C6_Witness ==
    \E m \in Markets :
        /\ m \notin markets
        /\ LogsFor(out, "", "Scanner Removing") # {}
        /\ \E i \in WindowsFor(out, m) : getTime(out[i].window.windowEnd) < now

(***************************************************************************)
(* C7 as claimed: an open is announced ([ARB OPEN]) only by the tick on    *)
(* which the window's count of arb ticks reaches MIN_ARB_TICKS, never      *)
(* while the window has fewer ticks.                                       *)
(***************************************************************************)
C7_OpenAnnouncedAtMinTicks ==
    [][\A m \in Markets :
        LogsFor(out', m, "ARB OPEN") # {} =>
            /\ MapHas(windows', m)
            /\ Len(windows'[m].spreads) >= MIN_ARB_TICKS]_vars

(***************************************************************************)
(* C8: the arb test is strict: a tick whose combined ask equals the        *)
(* threshold is non-arb; it opens no window and ends the active one,       *)
(* reporting it when it is long enough.                                    *)
(***************************************************************************)
C8_EqualityIsNonArb ==
    [][\A m \in Markets : \A i \in EventsFor(out', m) :
        out'[i].combined = MIN_COMBINED_THRESHOLD =>
            /\ ~out'[i].isArb
            /\ ~MapHas(windows', m)
            /\ LogsFor(out', m, "ARB OPEN") = {}
            /\ OpenLongEnough(m) => Cardinality(WindowsFor(out', m)) = 1]_vars

C8_Witness ==
    \E m \in Markets : \E i \in EventsFor(out, m) :
        /\ out[i].combined = MIN_COMBINED_THRESHOLD
        /\ \E j \in WindowsFor(out, m) :
              out[j].window.closeCombined = MIN_COMBINED_THRESHOLD

(***************************************************************************)
(* C9: every spread recorded in an active window is strictly positive, and *)
(* so are peakSpread and avgSpread of every reported window.               *)
(***************************************************************************)
C9_SpreadsPositive ==
    /\ \A m \in DOMAIN windows :
          \A i \in DOMAIN windows[m].spreads : windows[m].spreads[i] > 0
    /\ \A i \in DOMAIN reported :
          /\ reported[i].peakSpread > 0
          /\ reported[i].avgSpread.num > 0
          /\ reported[i].avgSpread.den > 0

C9_Witness ==
    \E i \in DOMAIN reported :
        reported[i].peakSpread * reported[i].avgSpread.den > reported[i].avgSpread.num

(***************************************************************************)
(* C10: with a clock that never goes back, every reported window has       *)
(* windowStart <= windowEnd and durationMs = windowEnd - windowStart >= 0. *)
(***************************************************************************)
C10_StartNotAfterEnd ==
    \A i \in DOMAIN reported :
        /\ getTime(reported[i].windowStart) <= getTime(reported[i].windowEnd)
        /\ reported[i].durationMs
              = getTime(reported[i].windowEnd) - getTime(reported[i].windowStart)
        /\ reported[i].durationMs >= 0

C10_Witness ==
    \E i \in DOMAIN reported : reported[i].durationMs > 0

(***************************************************************************)
(* C11: while the YES or the NO best ask of a watched market is unknown,   *)
(* a step (in particular a price update for one of its tokens) leaves the  *)
(* market untouched: no event callback, no window created, extended or     *)
(* closed, no window reported, and its statistics (tickCount and           *)
(* currentCombined among them) unchanged.                                  *)
(***************************************************************************)
HalfHydrated(asks, m) ==
    getBestAsk(asks, yesTokenId(m)) = NULL \/ getBestAsk(asks, noTokenId(m)) = NULL

C11_HalfHydratedDropped ==
    [][\A m \in markets \cap markets' :
        HalfHydrated(bestAsks', m) =>
            /\ EventsFor(out', m) = {}
            /\ WindowsFor(out', m) = {}
            /\ LogsFor(out', m, "ARB OPEN") = {}
            /\ LogsFor(out', m, "ARB CLOSE") = {}
            /\ ~MapHas(windows, m) /\ ~MapHas(windows', m)
            /\ stats'[m] = stats[m]
            /\ stats'[m].tickCount = 0
            /\ stats'[m].currentCombined = NULL]_vars

C11_Witness ==
    \E m \in markets :
        /\ totalUpdates >= 2
        /\ MapHas(bestAsks, yesTokenId(m))
        /\ ~MapHas(bestAsks, noTokenId(m))
        /\ stats[m].tickCount = 0
        /\ stats[m].currentCombined = NULL
        /\ out = <<>>

(***************************************************************************)
(* C13: a decision is made in the step that applies the feed message that  *)
(* triggered it, and it reads the best asks as that message left them: the *)
(* event carries the YES and NO best asks the watcher exposes after the    *)
(* step, a step makes at most one decision, and that step counts exactly   *)
(* one update and applies no market refresh.                               *)
(***************************************************************************)
AllEvents(calls) == {i \in DOMAIN calls : calls[i].kind = "onEvent"}

C13_DecisionUsesFreshAsks ==
    [][/\ Cardinality(AllEvents(out')) <= 1
       /\ \A m \in Markets : \A i \in EventsFor(out', m) :
             /\ out'[i].yesAsk = getBestAsk(bestAsks', yesTokenId(m))
             /\ out'[i].noAsk = getBestAsk(bestAsks', noTokenId(m))
             /\ out'[i].combined = out'[i].yesAsk + out'[i].noAsk
             /\ stats'[m].currentCombined = out'[i].combined
             /\ totalUpdates' = totalUpdates + 1
             /\ watchedMarkets' = watchedMarkets
             /\ markets' = markets]_vars

C13_Witness ==
    \E m \in markets : \E i \in EventsFor(out, m) :
        /\ stats[m].tickCount >= 2
        /\ MapHas(windows, m)
        /\ out[i].combined # windows[m].openCombined
        /\ out[i].yesAsk = bestAsks[yesTokenId(m)]
        /\ out[i].noAsk = bestAsks[noTokenId(m)]

(***************************************************************************)
(* C14 as claimed: for every token with a book, the best ask exposed is    *)
(* the minimum price of its ask book and the best bid exposed the maximum  *)
(* price of its bid book, and no best price is exposed for an empty side.  *)
(***************************************************************************)
C14_BestIsBookExtreme ==
    \A t \in DOMAIN books :
        /\ IF DOMAIN books[t].asks = {}
           THEN getBestAsk(bestAsks, t) = NULL
           ELSE getBestAsk(bestAsks, t) = SetMin(DOMAIN books[t].asks)
        /\ IF DOMAIN books[t].bids = {}
           THEN getBestBid(bestBids, t) = NULL
           ELSE getBestBid(bestBids, t) = SetMax(DOMAIN books[t].bids)

(***************************************************************************)
(* Reading the last payload (FeedSpec)                                     *)
(***************************************************************************)
Received == nMessages' = nMessages + 1
HasNull(entries) == \E i \in DOMAIN entries : IsNull(entries[i])
MalformedMsg(msg) ==
    \/ IsNull(msg)
    \/ msg.event_type = "book" /\ (HasNull(msg.asks) \/ HasNull(msg.bids))
    \/ msg.event_type = "price_change" /\ HasNull(msg.changes)
Malformed(p) == ~p.json \/ \E i \in DOMAIN p.msgs : MalformedMsg(p.msgs[i])
WellFormedObject(p) == p.text = "object" /\ ~Malformed(p)

(***************************************************************************)
(* C12: a payload all of whose messages are for tokens that are not mapped *)
(* to a watched market changes no order book, cached best price, market    *)
(* statistic or window, counts no update and makes no call.                *)
(***************************************************************************)
C12_UnknownTokenDropped ==
    [][(/\ Received
        /\ ~Malformed(payload')
        /\ \A i \in DOMAIN payload'.msgs :
              ~MapHas(tokenToMarket, payload'.msgs[i].asset_id)) =>
            /\ UNCHANGED <<books, bestAsks, bestBids, stats, windows, markets,
                           tokenToMarket, totalUpdates, reported, observed>>
            /\ out' = <<>>]_vars

C12_Witness ==
    /\ nMessages >= 2
    /\ totalUpdates = 1
    /\ markets = {}
    /\ books = EmptyMap
    /\ payload = Object(Book("y1", <<Level(4, 1)>>, <<Level(3, 1)>>))
    /\ out = <<>>

(***************************************************************************)
(* C15 as claimed: every level of every order book has a size > 0.         *)
(***************************************************************************)
C15_SizesPositive ==
    \A t \in DOMAIN books :
        /\ \A price \in DOMAIN books[t].asks : books[t].asks[price] > 0
        /\ \A price \in DOMAIN books[t].bids : books[t].bids[price] > 0

(***************************************************************************)
(* C16: after a well-formed book snapshot for a watched token, the token's *)
(* book holds exactly the levels of the snapshot that have a size > 0      *)
(* (the last one listed for a price), whatever the book held before.       *)
(***************************************************************************)
SnapshotLevels(entries) ==
    LET listed(price) == {i \in DOMAIN entries :
                            entries[i].price = price /\ entries[i].size > 0}
    IN [price \in {entries[i].price : i \in {j \in DOMAIN entries : entries[j].size > 0}}
           |-> entries[SetMax(listed(price))].size]

C16_SnapshotReplaces ==
    [][(/\ Received
        /\ WellFormedObject(payload')
        /\ payload'.msgs[1].event_type = "book"
        /\ MapHas(books, payload'.msgs[1].asset_id)) =>
            books'[payload'.msgs[1].asset_id] =
                [asks |-> SnapshotLevels(payload'.msgs[1].asks),
                 bids |-> SnapshotLevels(payload'.msgs[1].bids)]]_vars

C16_Witness ==
    \E t \in DOMAIN books :
        /\ nMessages >= 3
        /\ payload = Object(Book(t, <<Level(6, 1), Level(4, 0)>>, <<>>))
        /\ books[t] = [asks |-> MapSet(EmptyMap, 6, 1), bids |-> EmptyMap]
        /\ getBestBid(bestBids, t) = 3
        /\ getBestAsk(bestAsks, t) = 6

(***************************************************************************)
(* C17 as claimed: every book snapshot, price change or last-trade frame   *)
(* received for a watched token delivers exactly one price update to the   *)
(* detector.                                                               *)
(***************************************************************************)
C17_EveryFrameDelivers ==
    [][(/\ Received
        /\ WellFormedObject(payload')
        /\ payload'.msgs[1].event_type \in {"book", "price_change", "last_trade_price"}
        /\ MapHas(tokenToMarket, payload'.msgs[1].asset_id)) =>
            totalUpdates' = totalUpdates + 1]_vars

(***************************************************************************)
(* C18 as claimed: a malformed payload is dropped as a whole: it changes   *)
(* no order book, cached best price or window, and triggers no tick.       *)
(***************************************************************************)
C18_MalformedDroppedWhole ==
    [][(Received /\ Malformed(payload')) =>
            /\ UNCHANGED <<books, bestAsks, bestBids, windows, stats, totalUpdates>>
            /\ out' = <<>>]_vars

(***************************************************************************)
(* C19: the events of the connection (close, error, sleep, new socket,     *)
(* open) change no window, book or cached price and report or announce no  *)
(* window; and when a market's window has seen the connection fail, a tick *)
(* of that market that leaves the best asks unchanged (a snapshot with the *)
(* same prices after the reconnect) extends that same window: no close is  *)
(* reported and no window is opened.                                       *)
(***************************************************************************)
C19_ReconnectKeepsWindow ==
    /\ [](interrupted \subseteq DOMAIN windows)
    /\ [][pc' # pc =>
            /\ UNCHANGED <<windows, stats, books, bestAsks, bestBids, reported>>
            /\ \A i \in DOMAIN out' : out'[i].kind = "send"]_vars
    /\ [][\A m \in interrupted :
            (EventsFor(out', m) # {} /\ bestAsks' = bestAsks) =>
                /\ MapHas(windows', m)
                /\ windows'[m].startTs = windows[m].startTs
                /\ windows'[m].openCombined = windows[m].openCombined
                /\ Len(windows'[m].spreads) = Len(windows[m].spreads) + 1
                /\ WindowsFor(out', m) = {}
                /\ LogsFor(out', m, "ARB OPEN") = {}
                /\ LogsFor(out', m, "ARB CLOSE") = {}
                /\ reported' = reported]_vars

C19_Witness ==
    \E m \in interrupted :
        /\ pc = "open"
        /\ lastWait # NULL
        /\ ArbTick(out, m)
        /\ Len(windows[m].spreads) >= MIN_ARB_TICKS
        /\ reported = <<>>

(***************************************************************************)
(* C20 as claimed: the wait before a reconnect is 100 ms after the first   *)
(* failure, doubles with every further consecutive failure, and never      *)
(* exceeds 30 s.                                                           *)
(***************************************************************************)
RECURSIVE Pow2(_)
Pow2(n) == IF n = 0 THEN 1 ELSE 2 * Pow2(n - 1)

C20_BackoffFrom100ms ==
    [][(pc' = "sleeping" /\ pc # "sleeping") =>
            lastWait' = Min(100 * Pow2(failures), 30000)]_vars

(***************************************************************************)
(* C21: a successful open resets the backoff: when the connection fails    *)
(* after it had opened, the connect loop sleeps for the initial delay,     *)
(* however many failed attempts preceded that open.                        *)
(***************************************************************************)
C21_OpenResetsBackoff ==
    [][(pc = "open" /\ pc' = "sleeping") => lastWait' = INITIAL_DELAY]_vars

C21_Witness ==
    /\ pc = "sleeping"
    /\ failures = 1
    /\ failedBefore >= 2
    /\ lastWait = INITIAL_DELAY

(***************************************************************************)
(* C22: when the connection opens, one subscription carrying the complete  *)
(* set of subscribed tokens is sent, and while the connection is open      *)
(* every subscribed token has been sent in a subscription on the current   *)
(* socket.                                                                 *)
(***************************************************************************)
C22_SubscribedWhileOpen ==
    [][(pc' = "open" /\ shouldRun') =>
          /\ subscribedTokens' \subseteq sentTokens'
          /\ (pc # "open" /\ subscribedTokens' # {}) =>
                 \E i \in DOMAIN out' :
                     /\ out'[i].kind = "send"
                     /\ out'[i].assets_ids = subscribedTokens']_vars

C22_Witness ==
    /\ pc = "open"
    /\ shouldRun
    /\ failedBefore >= 1
    /\ subscribedTokens # {}
    /\ \E i \in DOMAIN out : out[i].kind = "send" /\ out[i].assets_ids = subscribedTokens

(***************************************************************************)
(* C23: when a market is removed from the watched set, each of its tokens  *)
(* is removed from the feed's subscription before its entry of the         *)
(* token-to-market mapping is deleted.                                     *)
(***************************************************************************)
C23_UnsubscribeBeforeUnmap ==
    [][\A m \in Markets :
          Removed(m) =>
              \A t \in {yesTokenId(m), noTokenId(m)} :
                  \E i, j \in DOMAIN trace' :
                      /\ trace'[i] = [op |-> "subscribedTokens.delete", tokenId |-> t]
                      /\ trace'[j] = [op |-> "tokenToMarket.delete", tokenId |-> t]
                      /\ i < j]_vars

(***************************************************************************)
(* C24: a refresh whose catalog fetch fails leaves the known market list,  *)
(* the watched set, the detector's markets and windows and the feed's      *)
(* subscribed tokens and books as they were, and the scanner keeps         *)
(* running, so that the next refresh can run.                              *)
(***************************************************************************)
C24_FailedRefreshChangesNothing ==
    [][(proc = "running" /\ fetched' = "failed") =>
          /\ UNCHANGED <<allMarkets, watchedMarkets, watchedIds, markets, tokenToMarket,
                         stats, windows, subscribedTokens, books>>
          /\ proc' = "running"]_vars

C24_Witness ==
    /\ proc = "running"
    /\ fetched = "failed"
    /\ DOMAIN windows # {}
    /\ \E m \in markets : endOf(m) <= now

(***************************************************************************)
(* C25: a failed catalog fetch never terminates the scanner, at startup or *)
(* later: the failure is logged and the scanner keeps running.             *)
(***************************************************************************)
C25_FetchFailureNeverTerminates ==
    [][fetched' = "failed" =>
          /\ proc' # "exited"
          /\ \E i \in DOMAIN out' : out'[i].kind = "scanLog"]_vars

(***************************************************************************)
(* C26: when a live market expires, the nearest upcoming market of its     *)
(* timeframe known at the preceding refresh is watched by the detector and *)
(* subscribed on the feed.  As stated, the preceding refresh is any        *)
(* refresh; as amended, it is the last selection whose fetch succeeded.    *)
(***************************************************************************)
Expires(m) == startOf(m) <= now /\ now < endOf(m) /\ endOf(m) <= now'

WatchedAndSubscribed(m) ==
    /\ m \in markets'
    /\ \A t \in {yesTokenId(m), noTokenId(m)} :
          /\ MapGetOrNull(tokenToMarket', t) = m
          /\ t \in subscribedTokens'
          /\ MapHas(books', t)

C27_PersistedInEmitOrder ==
    /\ \A i, j \in DOMAIN file : i < j => file[i].seq < file[j].seq
    /\ \A i \in DOMAIN file : \A a \in inflight : file[i].seq < a.seq

(***************************************************************************)
(* C28: once the writer has taken every event of a window whose Close was  *)
(* enqueued, the table holds exactly one row for the window and it is the  *)
(* closed row that Open followed by Close produces, whatever the order in  *)
(* which the events were taken and whether or not the Open was dropped.    *)
(***************************************************************************)
RowsOf(w) == {r \in table : r.market_id = w.market_id /\ r.opened_at = w.opened_at}

Settled(w) ==
    /\ w \in queue.closed
    /\ \A e \in queue.pending :
          ~(e.market_id = w.market_id /\ e.opened_at = w.opened_at)

InOrderRow(w) ==
    CHOOSE r \in write_window_close(write_window_open({}, OpenEvent(w)), CloseEvent(w)) : TRUE

C28_SingleClosedRow ==
    \A w \in WriterWindows :
        Settled(w) =>
            /\ Cardinality(RowsOf(w)) = 1
            /\ \A r \in RowsOf(w) : [r EXCEPT !.id = 1] = InOrderRow(w)

(***************************************************************************)
(* C29: for a window that reached Open, exactly one of the four            *)
(* close_reason conditions holds, and with it exactly one opportunity      *)
(* class, which is one of 1..4.                                            *)
(***************************************************************************)
C29_ClassifierTotal ==
    (call # NoCall /\ ret # NoCall /\ call.fn = "classify"
        /\ call.tick_count >= MIN_ARB_TICKS) =>
        /\ Cardinality(ret.close_reason) = 1
        /\ Cardinality(ret.opportunity_class) = 1
        /\ ret.opportunity_class \subseteq 1 .. 4

(***************************************************************************)
(* C30: when the outcome labels name both Up and Down, the YES token is    *)
(* the token id at the index of the Up label and the NO token the one at   *)
(* the index of the Down label; otherwise YES is the first token id and NO *)
(* the second.  In both cases YES and NO are two different entries of the  *)
(* token list.                                                             *)
(***************************************************************************)
LabelIndexes(outcomes, label) ==
    {i \in DOMAIN outcomes : toLowerCase(outcomes[i]) = label}

C30_TokensByLabelsOrPosition ==
    (call # NoCall /\ ret # NoCall /\ call.fn = "assignTokens") =>
        LET outcomes == IF call.outcomes.json THEN call.outcomes.value ELSE <<>>
            ups == LabelIndexes(outcomes, "up")
            downs == LabelIndexes(outcomes, "down")
        IN \E i, j \in DOMAIN call.clobTokenIds :
               /\ i # j
               /\ ret.upTokenId = call.clobTokenIds[i]
               /\ ret.downTokenId = call.clobTokenIds[j]
               /\ IF ups # {} /\ downs # {}
                  THEN i = SetMin(ups) /\ j = SetMin(downs)
                  ELSE i = 1 /\ j = 2

(***************************************************************************)
(* RunSpec: one market watched over several runs of arb ticks.  The feed   *)
(* sends whole book snapshots of the two tokens of m1, the clock advances  *)
(* between messages, and the refresh removes and re-adds the market.       *)
(***************************************************************************)
MaxRunUpdates == 7
MaxRunTime == 2
RunFrames ==
    {Book(yesTokenId("m1"), <<Level(4, 1)>>, <<>>),
     Book(noTokenId("m1"), <<Level(4, 1)>>, <<>>),
     Book(noTokenId("m1"), <<Level(6, 1)>>, <<>>)}
RunDesiredLists == {<<>>, <<"m1">>}

RunMessage ==
    \E msg \in RunFrames :
        /\ totalUpdates < MaxRunUpdates
        /\ Deliver(Object(msg))
        /\ UNCHANGED <<feedVars, connObs>>

RunRefresh ==
    \E desired \in RunDesiredLists :
        /\ proc = "running"
        /\ RefreshTo(desired)
        /\ UNCHANGED connObs

RunAdvance ==
    /\ now < MaxRunTime
    /\ now' = now + 1
    /\ out' = <<>>
    /\ trace' = <<>>
    /\ UNCHANGED <<markets, tokenToMarket, stats, windows, books, bestAsks, bestBids,
                   subscribedTokens, totalUpdates, watchedMarkets, watchedIds,
                   reported, observed, connVars, feedVars, interrupted, connObs,
                   otherVars>>

RunNext == RunMessage \/ RunRefresh \/ RunAdvance

RunSpec == Init /\ [][RunNext]_vars


(***************************************************************************)
(* C31: selectWatchedMarkets returns every known market that is live at    *)
(* the call time and, for each timeframe that has upcoming markets,        *)
(* exactly one of them, which none of the others starts before; it returns *)
(* nothing else, so no expired market.                                     *)
(***************************************************************************)
LiveAt(ms, t) == {m \in ms : startOf(m) <= t /\ t < endOf(m)}
UpcomingAt(ms, tf, t) == {m \in ms : timeframe(m) = tf /\ t < startOf(m) /\ t < endOf(m)}

C31_SelectsLiveAndNearest ==
    (call # NoCall /\ ret # NoCall /\ call.fn = "selectWatchedMarkets") =>
        LET known == SeqRange(call.allMarkets)
            t == call.now
            selected == SeqRange(ret.selected)
        IN /\ LiveAt(known, t) \subseteq selected
           /\ selected \subseteq
                  LiveAt(known, t) \cup UNION {UpcomingAt(known, tf, t) : tf \in Timeframes}
           /\ \A tf \in Timeframes :
                  LET ups == UpcomingAt(known, tf, t)
                  IN ups # {} =>
                        /\ Cardinality(selected \cap ups) = 1
                        /\ \A m \in selected \cap ups :
                              \A x \in ups : startOf(m) <= startOf(x)

C31_Witness ==
    /\ call # NoCall /\ ret # NoCall /\ call.fn = "selectWatchedMarkets"
    /\ LiveAt(SeqRange(call.allMarkets), call.now) # {}
    /\ \E tf \in Timeframes :
          \E a, b \in UpcomingAt(SeqRange(call.allMarkets), tf, call.now) :
              /\ startOf(a) < startOf(b)
              /\ call.allMarkets = <<b, a>> \o SubSeq(call.allMarkets, 3, Len(call.allMarkets))
              /\ a \in SeqRange(ret.selected)

(***************************************************************************)
(* C32: the duration of a reported window is the time of its last arb tick *)
(* minus the time of its first arb tick, and windowEnd is the time of the  *)
(* last arb tick: whenever a window is reported, by a closing non-arb tick *)
(* or by the removal of its market, its windowStart and windowEnd are the  *)
(* times of the first and last arb tick of the run the callbacks have      *)
(* shown, and durationMs is their difference, however late the close is.   *)
(***************************************************************************)
C32_DurationIsLastMinusFirstArbTick ==
    [][\A i \in DOMAIN out' :
          out'[i].kind = "onWindow" =>
              LET w == out'[i].window
                  o == observed[w.marketId]
              IN /\ o.firstArb # NULL /\ o.lastArb # NULL
                 /\ w.windowStart = toISOString(o.firstArb)
                 /\ w.windowEnd = toISOString(o.lastArb)
                 /\ w.durationMs = o.lastArb - o.firstArb]_vars

(* A window of duration 1 is reported by a non-arb tick that comes a clock *)
(* reading after the window's last arb tick.                               *)
C32_Witness ==
    \E i \in DOMAIN out :
        /\ out[i].kind = "onWindow"
        /\ out[i].window.durationMs = 1
        /\ out[i].window.windowEnd = toISOString(now - 1)
        /\ NonArbTick(out, out[i].window.marketId)

(***************************************************************************)
(* C33: in every reachable state a watched market has an active window     *)
(* exactly when its last decided tick was an arb tick, that is when its    *)
(* currentCombined is set and below the threshold (and the last onEvent of *)
(* the market was an arb one); a market that is not watched has no window. *)
(***************************************************************************)
C33_WindowIffLastTickWasArb ==
    /\ \A m \in markets :
          /\ MapHas(windows, m) <=>
                (stats[m].currentCombined # NULL
                 /\ stats[m].currentCombined < MIN_COMBINED_THRESHOLD)
          /\ MapHas(windows, m) <=> observed[m].run > 0
    /\ DOMAIN windows \subseteq markets

(* A first arb tick that is followed by a non-arb tick: the short run is   *)
(* discarded and the market, still watched, is left without a window.      *)
C33_Witness ==
    /\ "m1" \in markets
    /\ ~MapHas(windows, "m1")
    /\ NonArbTick(out, "m1")
    /\ stats["m1"].arbTickCount = 1
    /\ stats["m1"].windowCount = 0

(***************************************************************************)
(* C35: for every reported window openCombined is below the threshold;     *)
(* closeCombined is at or above the threshold when the window was closed   *)
(* by a non-arb tick of its market and below the threshold when it was     *)
(* closed by the removal of its market.                                    *)
(***************************************************************************)
C35_OpenBelowCloseBySide ==
    [][\A i \in DOMAIN out' :
          out'[i].kind = "onWindow" =>
              LET w == out'[i].window
                  m == w.marketId
              IN /\ w.openCombined < MIN_COMBINED_THRESHOLD
                 /\ NonArbTick(out', m) \/ Removed(m)
                 /\ NonArbTick(out', m) => w.closeCombined >= MIN_COMBINED_THRESHOLD
                 /\ Removed(m) => w.closeCombined < MIN_COMBINED_THRESHOLD]_vars

(* Both closes have happened: the first window of m1 was reported by a     *)
(* non-arb tick with closeCombined at the threshold, the second by the     *)
(* removal of m1 with closeCombined below it.                              *)
C35_Witness ==
    /\ Len(reported) = 2
    /\ reported[1].closeCombined >= MIN_COMBINED_THRESHOLD
    /\ reported[2].closeCombined < MIN_COMBINED_THRESHOLD
    /\ reported[2].openCombined < MIN_COMBINED_THRESHOLD
    /\ "m1" \notin markets
    /\ WindowsFor(out, "m1") # {}

(***************************************************************************)
(* C36: the windows of one market are reported in chronological order and  *)
(* do not overlap: with a clock that never goes back, of two windows of    *)
(* the same market the one reported later does not start before the end of *)
(* the one reported earlier.                                               *)
(***************************************************************************)
C36_WindowsInOrderNoOverlap ==
    \A i, j \in DOMAIN reported :
        (i < j /\ reported[i].marketId = reported[j].marketId)
            => reported[j].windowStart[2] >= reported[i].windowEnd[2]

(* Two windows of m1 have been reported, the first of them lasting over a  *)
(* clock reading and the second one starting after the first has ended.    *)
C36_Witness ==
    /\ Len(reported) = 2
    /\ reported[1].marketId = "m1" /\ reported[2].marketId = "m1"
    /\ reported[1].durationMs = 1
    /\ reported[2].windowStart[2] > reported[1].windowEnd[2]
    /\ WindowsFor(out, "m1") # {}

(***************************************************************************)
(* C37: for every watched market windowCount is the number of windows      *)
(* reported for it since it was added, sumWindowDurationMs is the sum of   *)
(* their durations and longestWindowMs is the largest of them; a step that *)
(* reports no window of a market, such as the ticks of a run shorter than  *)
(* MIN_ARB_TICKS and the tick that discards it, changes none of the three. *)
(***************************************************************************)
C37_WindowTotalsMatchReports ==
    /\ [](\A m \in markets :
            /\ stats[m].windowCount = observed[m].count
            /\ stats[m].sumWindowDurationMs = observed[m].sum
            /\ stats[m].longestWindowMs = observed[m].longest)
    /\ [][\A m \in markets \cap markets' :
            WindowsFor(out', m) = {} =>
                /\ stats'[m].windowCount = stats[m].windowCount
                /\ stats'[m].sumWindowDurationMs = stats[m].sumWindowDurationMs
                /\ stats'[m].longestWindowMs = stats[m].longestWindowMs]_vars

(* m1 was removed with a window, added again and has had one more window   *)
(* of duration 1 since: two windows reported, one counted.                 *)
C37_Witness ==
    /\ "m1" \in markets
    /\ Len(ReportedFor("m1")) = 2
    /\ stats["m1"].windowCount = 1
    /\ stats["m1"].sumWindowDurationMs = 1
    /\ stats["m1"].longestWindowMs = 1

(* A run of one arb tick has just been discarded by a non-arb tick after a *)
(* window of m1 was counted.                                               *)
C37_DiscardedRun ==
    /\ "m1" \in markets
    /\ stats["m1"].windowCount = 1
    /\ stats["m1"].arbTickCount = 3
    /\ NonArbTick(out, "m1")
    /\ WindowsFor(out, "m1") = {}
    /\ stats["m1"].tickCount = 5

(***************************************************************************)
(* C34: after every completed refresh cycle, the cycles whose fetches      *)
(* overlapped and completed in another order than they started included,   *)
(* the markets held by the detector, the watchedIds set and the ids of the *)
(* last desired set are equal, and the feed's subscribed tokens are        *)
(* exactly the YES and NO tokens of those markets, each with an order book. *)
(***************************************************************************)
TokensOfMarkets(ms) == {yesTokenId(m) : m \in ms} \cup {noTokenId(m) : m \in ms}

C34_WatchedSetsAgreeAfterRefresh ==
    (proc = "running" /\ fetches.completed # <<>> /\ fetched # "none") =>
        /\ markets = watchedIds
        /\ watchedIds = SeqRange(watchedMarkets)
        /\ subscribedTokens = TokensOfMarkets(markets)
        /\ DOMAIN books = subscribedTokens

(* A fetch that was overtaken by a later one has just completed, and its   *)
(* cycle removed a market from the watch and left another one watched.     *)
C34_Witness ==
    /\ proc = "running"
    /\ fetched = "ok"
    /\ fetches.completed # <<>>
    /\ fetches.completed[1].overtaken
    /\ LogsFor(out, "", "Scanner Removing") # {}
    /\ markets # {}

(***************************************************************************)
(* C38: after a market is removed, and until it is added again, its tokens *)
(* have no order book and no cached best ask or bid, and a feed frame for  *)
(* those tokens, well formed or not, triggers no detector tick and changes *)
(* no state of the feed or of the detector.                                *)
(***************************************************************************)
C38_RemovedTokensAreInert ==
    /\ [](\A t \in TokensOfMarkets(Markets \ markets) :
            ~MapHas(books, t) /\ ~MapHas(bestAsks, t) /\ ~MapHas(bestBids, t))
    /\ [][(/\ Received
           /\ payload'.json
           /\ \A i \in DOMAIN payload'.msgs :
                 /\ ~IsNull(payload'.msgs[i])
                 /\ payload'.msgs[i].asset_id \in TokensOfMarkets(Markets \ markets)) =>
               /\ UNCHANGED <<books, bestAsks, bestBids, subscribedTokens, totalUpdates,
                              markets, tokenToMarket, stats, windows, watchedMarkets,
                              watchedIds, reported, observed>>
               /\ out' = <<>>]_vars

(* m1 received a book and was removed; the last frame, a snapshot of y1    *)
(* with a null level, has left no book and no best price behind.           *)
C38_Witness ==
    /\ "m1" \notin markets
    /\ nMessages = 2
    /\ totalUpdates = 1
    /\ payload = Object(Book("y1", <<NullEntry>>, <<Level(3, 1)>>))
    /\ books = EmptyMap /\ bestAsks = EmptyMap /\ bestBids = EmptyMap
    /\ out = <<>>

(***************************************************************************)
(* C39: after stop() is called no new connection attempt is started, and   *)
(* connect() eventually returns, whether stop() happens while the          *)
(* connection is open, while it is being established or during a backoff   *)
(* sleep.                                                                  *)
(***************************************************************************)
C39_StopEndsTheLoop ==
    /\ [][~shouldRun => /\ ~shouldRun'
                        /\ pc' = "connecting" => pc = "connecting"
                        /\ pc' = "open" => pc = "open"]_vars
    /\ \A at \in {"open", "connecting", "sleeping"} :
          (~shouldRun /\ pc = at) ~> (pc = "returned")

(* stop() was called during the sleep that followed the only failure: the  *)
(* sleep has run to its end, the delay was doubled and connect() returned. *)
C39_Witness ==
    /\ ~shouldRun
    /\ pc = "returned"
    /\ failures = 1
    /\ lastWait = INITIAL_DELAY
    /\ reconnectDelay = 2 * INITIAL_DELAY

====
